---- MODULE Spec2Model ----
(***************************************************************************)
(* A model of the AURA processing pipeline (processor/main.py and          *)
(* processor/src/*.py): the persistence layer dump_metadata_to_db with its *)
(* per-record transactions, and the pipeline controller job().             *)
(*                                                                         *)
(* Strings are sequences of characters, so that str.strip() is computed    *)
(* and not assumed; JSON values carry their type.                          *)
(***************************************************************************)
EXTENDS Integers, Sequences, FiniteSets, TLC

VARIABLES
    articles,     \* committed rows of table articles (a sequence, by rowid)
    keywords,     \* committed table keywords: keyword -> row
    txArticles,   \* table articles as the open connection sees it
    txKeywords,   \* table keywords as the open connection sees it
    inTx,         \* a transaction is open on the connection
    pc,           \* position inside dump_metadata_to_db
    paper,        \* the record the loop is at
    article_id,   \* cur.lastrowid captured after the insert
    pending,      \* filtered definitions still to be upserted
    left,         \* records of the batch the loop has not reached yet
    seen,         \* records drawn from batch files so far
    last,         \* how the latest record or call ended
    begun,        \* BEGIN statements the connections have executed
    ended,        \* transactions closed so far, by commit and by rollback
    undone,       \* article ids whose insert a rollback has taken back
    prior,        \* rows of articles there were when the running call
                  \* began, 0 while no call runs
    jpc,          \* position inside job()
    stage,        \* the stage job() is in
    exc,          \* what raised the exception in flight, "none" without one
    started,      \* metrics._stage_start_times: the stages being timed
    timing,       \* metrics.timing: the stages that have a duration
    errors,       \* metrics.errors, each as category and stage
    scraping,     \* metrics.scraping
    llm,          \* metrics.llm
    database,     \* metrics.database
    fetch,        \* how the feed query of this run ended
    batchfile,    \* the metadata file of the run date
    read,         \* how the enrichment stage's read of that file ended
    summaries,    \* summaries printed by this run
    summary,      \* what the latest summary showed
    saves,        \* calls of save_metrics_history
    exports,      \* lines appended to the metrics history
    result,       \* how job() ended
    starts,       \* calls of metrics.start_stage, by stage
    ends,         \* calls of metrics.end_stage, by stage
    exit_status,  \* the exit status of the process, "none" while it runs
    bpc,          \* position inside scrape_papers / generate_keywords_and_defs
    metadata_dict,  \* the records the running function holds, by paper id
    metadata_file,  \* the metadata file as the record loops write and read it
    pdfs,         \* paper ids whose PDF file is in the save directory
    calls,        \* what the stages did so far: the feed entries read, the
                  \* downloads, extractions and model requests made
    paper_id,     \* the record the running loop is at
    kwds,         \* the keyword list parsed for that record
    run,          \* which call of scrape_papers over the records this is
    num_pdfs_downloaded,  \* scrape_papers' count of downloaded PDFs
    first,        \* what the first call returned and had done by then
    api,          \* the feed response and what get_arxiv_metadata returned
    today,        \* the calendar day, counted from the first day looked at
    dirs,         \* the days whose ./data/pdfs/papers_<day> directory exists
    cleaned,      \* how the call of clean_papers made last ended
    rendered,     \* what get_summary computed for the latest summary
    now,          \* the wall clock: month, day and minute
    history,      \* the files of data/logs: name -> the lines in the file
    saved         \* the calls of save_metrics_history that wrote, in order

jobvars == <<jpc, stage, exc, started, timing, errors, scraping, llm,
             database, fetch, batchfile, read, summaries, summary, saves,
             exports, result>>

\* the controller's state apart from the counters and the error list
ctrlvars == <<jpc, stage, exc, started, timing, database, fetch, batchfile,
              read, summaries, summary, saves, exports, result>>

mainvars == <<starts, ends, exit_status>>

batchvars == <<bpc, metadata_dict, metadata_file, pdfs, calls, paper_id, kwds>>

runvars == <<run, num_pdfs_downloaded, first, api>>

cleanvars == <<today, dirs, cleaned>>

summvars == <<rendered>>

histvars == <<now, history, saved>>

\* the state of the jobs and files beside the pipeline's stages
restvars == <<cleanvars, summvars, histvars>>

dbvars == <<articles, keywords, txArticles, txKeywords, inTx, pc, paper,
            article_id, pending, left, seen, last, begun, ended, undone,
            prior>>

----------------------------------------------------------------------------
(* Bounds *)

\* records read from batch files over all calls of dump_metadata_to_db
MaxRecords == 3

\* entries of a feed response
MaxFeed == 2

\* the days looked at are 0..MaxDay
MaxDay == 9

\* the clock runs over the months 1..MaxMonth, the days 1..MaxDayOfMonth of
\* each and the minutes 0..MaxMinute of one hour of each day
MaxMonth == 2
MaxDayOfMonth == 2
MaxMinute == 1

\* the calls of save_metrics_history looked at
MaxRuns == 3

----------------------------------------------------------------------------
(* Strings and JSON values *)

SP == " "

RECURSIVE LStrip(_)
LStrip(s) == IF s # <<>> /\ Head(s) = SP THEN LStrip(Tail(s)) ELSE s

RECURSIVE RStrip(_)
RStrip(s) ==
    IF s # <<>> /\ s[Len(s)] = SP THEN RStrip(SubSeq(s, 1, Len(s) - 1)) ELSE s

\* str.strip()
Strip(s) == RStrip(LStrip(s))

\* JSON string and JSON null
JStr(s) == [t |-> "str", s |-> s]
JNull == [t |-> "null", s |-> <<>>]

\* the four-letter string "None"
NoneStr == <<"N", "o", "n", "e">>

\* str(article_id): the decimal text of a row id
ToStr(n) == [digits |-> n]

\* the values the batch files of the model draw from
Uuids == {<<"u1">>, <<SP, "u1">>, <<"u2">>}
Titles == {<<"T1">>, <<SP, "T1">>, <<"T2">>}

Item(k, v) == [k |-> k, v |-> v]

\* the "definitions" objects of the model's records, in JSON object order
DefObjects ==
    { <<>>,
      <<Item(<<"a">>, JStr(<<"d1">>))>>,
      <<Item(<<SP, "a">>, JStr(<<"d2", SP>>)), Item(<<"b">>, JStr(<<"d1">>))>>,
      <<Item(<<>>, JStr(<<"d1">>))>>,
      <<Item(<<"a">>, JStr(<<>>))>>,
      <<Item(<<"a">>, JStr(NoneStr)), Item(<<"b">>, JNull)>> }

\* a record of a batch file: a JSON object, or a JSON value of another type
DictPapers ==
    [shape : {"dict"}, uuid : Uuids, title : Titles, definitions : DefObjects]

OtherPaper ==
    [shape |-> "other", uuid |-> <<>>, title |-> <<>>, definitions |-> <<>>]

Papers == DictPapers \cup {OtherPaper}

NoPaper ==
    [shape |-> "none", uuid |-> <<>>, title |-> <<>>, definitions |-> <<>>]

----------------------------------------------------------------------------
(* dump_metadata_to_db: pure parts *)

\* dict assignment d[k] = v: a new key goes last, a known key keeps its place
DictPut(d, k, v) ==
    IF \E i \in 1..Len(d) : d[i].k = k
    THEN [i \in 1..Len(d) |-> IF d[i].k = k THEN Item(k, v) ELSE d[i]]
    ELSE Append(d, Item(k, v))

\* the comprehension of lines 189-193: drops null and "None" values, strips
\* the keys, keeps the text of every other value (the empty text too)
RECURSIVE FilterDefinitions(_, _)
FilterDefinitions(items, acc) ==
    IF items = <<>> THEN acc
    ELSE LET it == Head(items)
             keep == it.v.t # "null" /\ it.v.s # NoneStr
         IN FilterDefinitions(Tail(items),
                IF keep THEN DictPut(acc, Strip(it.k), it.v.s) ELSE acc)

\* lines 186-193
Definitions(p) == FilterDefinitions(p.definitions, <<>>)

\* a duplicate check on the uuid alone
IsDuplicate_UuidOnly(rows, p) ==
    \E i \in 1..Len(rows) : rows[i].uuid = p.uuid

\* sql_check_duplicate with the parameters of line 214: the raw title and
\* the raw uuid of the record against the stored columns
IsDuplicate(rows, p) ==
    \E i \in 1..Len(rows) : rows[i].title = p.title \/ rows[i].uuid = p.uuid

\* INTEGER PRIMARY KEY without AUTOINCREMENT: one more than the largest rowid
NextRowid(rows) ==
    IF rows = <<>> THEN 1
    ELSE 1 + CHOOSE m \in {rows[i].article_id : i \in 1..Len(rows)} :
                 \A i \in 1..Len(rows) : rows[i].article_id <= m

\* the row of lines 221-235. from_uuid and from_definitions are no columns:
\* they remember the record's uuid as given and its filtered definitions
ArticleRow(rows, p) ==
    [article_id |-> NextRowid(rows), uuid |-> Strip(p.uuid),
     title |-> Strip(p.title), from_uuid |-> p.uuid,
     from_definitions |-> Definitions(p)]

Contains(seq, x) == \E i \in 1..Len(seq) : seq[i] = x

\* UpsertKeyword without the test of line 255: the id is appended and the
\* count raised whether or not the row lists it already
UpsertKeyword_NoMembershipTest(tbl, keyword, definition, id) ==
    LET clean_kw == Strip(keyword)
    IN IF clean_kw = <<>> THEN tbl
       ELSE IF clean_kw \in DOMAIN tbl
       THEN [tbl EXCEPT ![clean_kw] =
                [definition |-> tbl[clean_kw].definition,
                 count |-> tbl[clean_kw].count + 1,
                 paper_references |->
                     Append(tbl[clean_kw].paper_references, ToStr(id))]]
       ELSE tbl @@ (clean_kw :>
                [definition |-> Strip(definition), count |-> 1,
                 paper_references |-> <<ToStr(id)>>])

\* UpsertKeyword as INSERT OR REPLACE: a known keyword's row is replaced by
\* a new row
UpsertKeyword_Replace(tbl, keyword, definition, id) ==
    LET clean_kw == Strip(keyword)
        row == [definition |-> Strip(definition), count |-> 1,
                paper_references |-> <<ToStr(id)>>]
    IN IF clean_kw = <<>> THEN tbl
       ELSE IF clean_kw \in DOMAIN tbl
       THEN [tbl EXCEPT ![clean_kw] =
                [row EXCEPT !.definition = tbl[clean_kw].definition]]
       ELSE tbl @@ (clean_kw :> row)

\* UpsertKeyword with an UPDATE that sets the definition column too
UpsertKeyword_Overwrite(tbl, keyword, definition, id) ==
    LET clean_kw == Strip(keyword)
        clean_def == Strip(definition)
    IN IF clean_kw = <<>> THEN tbl
       ELSE IF clean_kw \in DOMAIN tbl
       THEN LET row == tbl[clean_kw]
                fresh == ~Contains(row.paper_references, ToStr(id))
            IN [tbl EXCEPT ![clean_kw] =
                   [definition |-> clean_def,
                    count |-> IF fresh THEN row.count + 1 ELSE row.count,
                    paper_references |->
                        IF fresh THEN Append(row.paper_references, ToStr(id))
                        ELSE row.paper_references]]
       ELSE tbl @@ (clean_kw :>
                [definition |-> clean_def, count |-> 1,
                 paper_references |-> <<ToStr(id)>>])

\* lines 240-266 for one (keyword, definition) pair and the new article id
UpsertKeyword(tbl, keyword, definition, id) ==
    LET clean_kw == Strip(keyword)
        clean_def == Strip(definition)
    IN IF clean_kw = <<>> THEN tbl
       ELSE IF clean_kw \in DOMAIN tbl
       THEN LET row == tbl[clean_kw]
                fresh == ~Contains(row.paper_references, ToStr(id))
            IN [tbl EXCEPT ![clean_kw] =
                   [definition |-> row.definition,
                    count |-> IF fresh THEN row.count + 1 ELSE row.count,
                    paper_references |->
                        IF fresh THEN Append(row.paper_references, ToStr(id))
                        ELSE row.paper_references]]
       ELSE tbl @@ (clean_kw :>
                [definition |-> clean_def, count |-> 1,
                 paper_references |-> <<ToStr(id)>>])

NoKeywords == [k \in {} |-> 0]

----------------------------------------------------------------------------
(* dump_metadata_to_db: the loop over the records of a batch file *)

InitDB ==
    /\ articles = <<>>
    /\ keywords = NoKeywords
    /\ txArticles = <<>>
    /\ txKeywords = NoKeywords
    /\ inTx = FALSE
    /\ pc = "idle"
    /\ paper = NoPaper
    /\ article_id = 0
    /\ pending = <<>>
    /\ left = 0
    /\ seen = 0
    /\ last = "none"
    /\ begun = 0
    /\ ended = [commit |-> 0, rollback |-> 0]
    /\ undone = {}
    /\ prior = 0

\* the article ids of a table's rows
Ids(rows) == {rows[i].article_id : i \in 1..Len(rows)}

\* conn.execute("BEGIN") of line 183
Begin == begun' = begun + 1

\* a rollback that takes back the articles rows of the transaction and
\* leaves its keywords rows to the connection
Rollback_KeepsKeywords ==
    /\ txArticles' = articles
    /\ inTx' = FALSE
    /\ ended' = [ended EXCEPT !.rollback = @ + 1]
    /\ undone' = undone \cup (Ids(txArticles) \ Ids(articles))
    /\ UNCHANGED <<articles, keywords, txKeywords>>

\* conn.rollback(): the connection sees the committed tables again
Rollback ==
    /\ txArticles' = articles
    /\ txKeywords' = keywords
    /\ inTx' = FALSE
    /\ ended' = [ended EXCEPT !.rollback = @ + 1]
    /\ undone' = undone \cup (Ids(txArticles) \ Ids(articles))
    /\ UNCHANGED <<articles, keywords>>

\* the loop moves on: the locals of the finished record are dead (each is
\* assigned again before it is read), the model forgets them
EndPaper ==
    /\ paper' = NoPaper
    /\ article_id' = 0
    /\ pending' = <<>>

\* a call whose batch file loads: setup_db, json.load, and the loop starts
LoadBatch ==
    /\ pc = "idle"
    /\ \E n \in 0..(MaxRecords - seen) : left' = n
    /\ pc' = "loop"
    /\ last' = "none"
    /\ prior' = Len(articles)
    /\ UNCHANGED <<articles, keywords, txArticles, txKeywords, inTx, paper,
                   article_id, pending, seen, begun, ended, undone>>
    /\ UNCHANGED <<jobvars, mainvars, batchvars, runvars, restvars>>

\* a call whose batch file is missing or is not JSON: lines 176-177 raise,
\* line 276 catches, nothing is stored
LoadFails ==
    /\ pc = "idle"
    /\ left' = 0
    /\ last' = "load_failed"
    /\ prior' = 0
    /\ UNCHANGED <<articles, keywords, txArticles, txKeywords, inTx, pc,
                   paper, article_id, pending, seen, begun, ended, undone>>
    /\ UNCHANGED <<jobvars, mainvars, batchvars, runvars, restvars>>

\* the loop is exhausted: the with block ends and the call returns None
Return ==
    /\ pc = "loop"
    /\ left = 0
    /\ pc' = "idle"
    /\ prior' = 0
    /\ UNCHANGED <<articles, keywords, txArticles, txKeywords, inTx, paper,
                   article_id, pending, left, seen, last, begun, ended,
                   undone>>
    /\ UNCHANGED <<jobvars, mainvars, batchvars, runvars, restvars>>

\* lines 181-198 for a record without definitions: BEGIN, filter, rollback
SkipNoDefinitions(p) ==
    /\ pc = "loop" /\ left > 0
    /\ p.shape = "dict"
    /\ Definitions(p) = <<>>
    /\ Begin
    /\ Rollback
    /\ left' = left - 1
    /\ seen' = seen + 1
    /\ last' = "no_definitions"
    /\ UNCHANGED <<pc, paper, article_id, pending, prior>>
    /\ UNCHANGED <<jobvars, mainvars, batchvars, runvars, restvars>>

\* lines 181-211 for a record with definitions: BEGIN, filter, go on
BeginPaper(p) ==
    /\ pc = "loop" /\ left > 0
    /\ p.shape = "dict"
    /\ Definitions(p) # <<>>
    /\ Begin
    /\ inTx' = TRUE
    /\ paper' = p
    /\ pending' = Definitions(p)
    /\ left' = left - 1
    /\ seen' = seen + 1
    /\ pc' = "check"
    /\ last' = "none"
    /\ UNCHANGED <<articles, keywords, txArticles, txKeywords, article_id,
                   ended, undone, prior>>
    /\ UNCHANGED <<jobvars, mainvars, batchvars, runvars, restvars>>

\* a record that is no JSON object: paper.get raises at line 186, the handler
\* rolls back (272) and its own paper.get raises at line 273; line 276
\* catches that one outside the loop, so the call ends here
AbortOnOtherShape(p) ==
    /\ pc = "loop" /\ left > 0
    /\ p.shape # "dict"
    /\ Begin
    /\ Rollback
    /\ left' = left - 1
    /\ seen' = seen + 1
    /\ pc' = "idle"
    /\ last' = "aborted"
    /\ prior' = 0
    /\ UNCHANGED <<paper, article_id, pending>>
    /\ UNCHANGED <<jobvars, mainvars, batchvars, runvars, restvars>>

\* lines 214-218: the duplicate check finds a row
SkipDuplicate ==
    /\ pc = "check"
    /\ IsDuplicate(txArticles, paper)
    /\ Rollback
    /\ EndPaper
    /\ pc' = "loop"
    /\ last' = "duplicate"
    /\ UNCHANGED <<left, seen, begun, prior>>
    /\ UNCHANGED <<jobvars, mainvars, batchvars, runvars, restvars>>

\* lines 214-236: no row found, the article is inserted and its id captured
InsertArticle ==
    /\ pc = "check"
    /\ ~IsDuplicate(txArticles, paper)
    /\ txArticles' = Append(txArticles, ArticleRow(txArticles, paper))
    /\ article_id' = NextRowid(txArticles)
    /\ pc' = "keywords"
    /\ UNCHANGED <<articles, keywords, txKeywords, inTx, paper, pending,
                   left, seen, last, begun, ended, undone, prior>>
    /\ UNCHANGED <<jobvars, mainvars, batchvars, runvars, restvars>>

\* one turn of the loop of lines 239-266
AddKeyword ==
    /\ pc = "keywords"
    /\ pending # <<>>
    /\ txKeywords' =
           UpsertKeyword(txKeywords, Head(pending).k, Head(pending).v,
                         article_id)
    /\ pending' = Tail(pending)
    /\ UNCHANGED <<articles, keywords, txArticles, inTx, pc, paper,
                   article_id, left, seen, last, begun, ended, undone, prior>>
    /\ UNCHANGED <<jobvars, mainvars, batchvars, runvars, restvars>>

\* the record's success path without line 268: the loop goes on with the
\* transaction of the record still open
Commit_LeavesOpen ==
    /\ pc = "keywords"
    /\ pending = <<>>
    /\ EndPaper
    /\ pc' = "loop"
    /\ last' = "inserted"
    /\ UNCHANGED <<articles, keywords, txArticles, txKeywords, inTx, left,
                   seen, begun, ended, undone, prior>>
    /\ UNCHANGED <<jobvars, mainvars, batchvars, runvars, restvars>>

\* line 268
Commit ==
    /\ pc = "keywords"
    /\ pending = <<>>
    /\ articles' = txArticles
    /\ keywords' = txKeywords
    /\ inTx' = FALSE
    /\ ended' = [ended EXCEPT !.commit = @ + 1]
    /\ EndPaper
    /\ pc' = "loop"
    /\ last' = "inserted"
    /\ UNCHANGED <<txArticles, txKeywords, left, seen, begun, undone,
                   prior>>
    /\ UNCHANGED <<jobvars, mainvars, batchvars, runvars, restvars>>

\* an exception in the record's try block (a value sqlite cannot bind, a
\* keywords field that is no list, a failing statement or commit): lines
\* 271-274 roll back and go on with the next record
PaperFails ==
    /\ pc \in {"check", "keywords"}
    /\ Rollback
    /\ EndPaper
    /\ pc' = "loop"
    /\ last' = "error"
    /\ UNCHANGED <<left, seen, begun, prior>>
    /\ UNCHANGED <<jobvars, mainvars, batchvars, runvars, restvars>>

NextDB ==
    \/ LoadBatch
    \/ LoadFails
    \/ Return
    \/ \E p \in Papers : SkipNoDefinitions(p)
    \/ \E p \in Papers : BeginPaper(p)
    \/ \E p \in Papers : AbortOnOtherShape(p)
    \/ SkipDuplicate
    \/ InsertArticle
    \/ AddKeyword
    \/ Commit
    \/ PaperFails

----------------------------------------------------------------------------
(* PipelineMetrics *)

\* max_results of the scrape_papers call
MaxResults == 10

Stages == <<"scraping", "llm_processing", "database">>

Error(category, where) == [category |-> category, stage |-> where]

\* metrics.increment on one counter group
Increment(group, metric, amount) == [group EXCEPT ![metric] = @ + amount]

\* metrics.record_error
RecordError(category, where) == errors' = Append(errors, Error(category, where))

\* metrics.get_summary: the counters and the errors as they are now
Snapshot ==
    [scraping |-> scraping, llm |-> llm, database |-> database,
     timing |-> timing, errors |-> errors]

NoSummary ==
    [scraping |-> <<>>, llm |-> <<>>, database |-> <<>>, timing |-> {},
     errors |-> <<>>]

\* a division: Python raises ZeroDivisionError for a zero divisor
Quotient(numerator, denominator) ==
    IF denominator = 0 THEN [text |-> "ZeroDivisionError"]
    ELSE [text |-> "number", numerator |-> numerator,
          denominator |-> denominator]

\* a percentage computed without looking at the denominator
_percent_Unguarded(numerator, denominator) ==
    Quotient(numerator * 100, denominator)

\* metrics.py lines 318-323
_percent(numerator, denominator) ==
    IF denominator = 0 THEN [text |-> "N/A"]
    ELSE Quotient(numerator * 100, denominator)

Max(a, b) == IF a >= b THEN a ELSE b

\* time.time() - start_time as get_summary may read it: nothing, or something
TotalTimes == {0, 1}

\* metrics.py lines 207-281: what get_summary computes of metrics m, the
\* total time being total_time. The eight percentages in the order of the
\* report, the average per paper when the enrichment stage has a duration,
\* the share of each timed stage; Duration(s) stands for the duration of s
Duration(s) == [duration_of |-> s]

get_summary(m, total_time) ==
    LET percentages ==
            <<_percent(m.scraping.metadata_fetched, m.scraping.papers_requested),
              _percent(m.scraping.pdfs_downloaded, m.scraping.pdfs_attempted),
              _percent(m.scraping.text_extraction_succeeded,
                       m.scraping.text_extraction_attempted),
              _percent(m.llm.keywords_extraction_success, m.llm.papers_processed),
              _percent(m.llm.definitions_extraction_success,
                       m.llm.papers_processed),
              _percent(m.llm.total_definitions_extracted,
                       m.llm.total_keywords_extracted),
              _percent(m.database.papers_inserted, m.database.papers_attempted),
              _percent(m.database.papers_no_definitions,
                       m.database.papers_attempted)>>
        avg_time ==
            IF "llm_processing" \in m.timing
            THEN Quotient(Duration("llm_processing"),
                          Max(m.llm.papers_processed, 1))
            ELSE [text |-> "absent"]
        percentage ==
            [s \in m.timing |->
                IF total_time > 0 THEN Quotient(Duration(s), total_time)
                ELSE [text |-> "zero"]]
    IN [percentages |-> percentages, avg_time |-> avg_time,
        percentage |-> percentage,
        raises |-> \/ \E n \in 1..Len(percentages) :
                         percentages[n].text = "ZeroDivisionError"
                   \/ avg_time.text = "ZeroDivisionError"
                   \/ \E s \in m.timing :
                         percentage[s].text = "ZeroDivisionError"]

\* no summary computed yet
InitSummary == rendered = [raises |-> FALSE]

----------------------------------------------------------------------------
(* job() *)

InitJob ==
    /\ jpc = "start"
    /\ stage = "none"
    /\ exc = "none"
    /\ started = {}
    /\ timing = {}
    /\ errors = <<>>
    /\ scraping = [papers_requested |-> 0, metadata_fetched |-> 0,
                   pdfs_attempted |-> 0, pdfs_downloaded |-> 0,
                   pdfs_failed |-> 0, text_extraction_attempted |-> 0,
                   text_extraction_succeeded |-> 0,
                   text_extraction_failed |-> 0]
    /\ llm = [papers_processed |-> 0, papers_skipped_no_text |-> 0,
              keywords_extraction_success |-> 0,
              keywords_extraction_failed |-> 0,
              definitions_extraction_success |-> 0,
              definitions_extraction_failed |-> 0,
              total_keywords_extracted |-> 0,
              total_definitions_extracted |-> 0,
              keywords_without_definitions |-> 0]
    /\ database = [papers_attempted |-> 0, papers_inserted |-> 0,
                   papers_duplicate |-> 0, papers_no_definitions |-> 0,
                   papers_error |-> 0]
    /\ fetch = "none"
    /\ batchfile = [state |-> "missing", n |-> 0]
    /\ read = "none"
    /\ summaries = 0
    /\ summary = NoSummary
    /\ saves = 0
    /\ exports = 0
    /\ result = "none"

StageNames == {Stages[n] : n \in 1..Len(Stages)}

\* no stage has been started or ended, the process is running
InitMain ==
    /\ starts = [s \in StageNames |-> 0]
    /\ ends = [s \in StageNames |-> 0]
    /\ exit_status = "none"

\* metrics.start_stage for the first stage (lines 53-63)
StartScraping ==
    /\ jpc = "start"
    /\ stage' = "scraping"
    /\ started' = started \cup {"scraping"}
    /\ starts' = [starts EXCEPT !["scraping"] = @ + 1]
    /\ jpc' = "scrape_papers"
    /\ UNCHANGED <<exc, timing, errors, scraping, llm, database, fetch,
                   batchfile, read, summaries, summary, saves, exports,
                   result>>
    /\ UNCHANGED <<dbvars, ends, exit_status, batchvars, runvars, restvars>>

\* scrape_papers, lines 238-246: the save directory cannot be made
ScrapeSetupRaises ==
    /\ jpc = "scrape_papers"
    /\ exc' = "makedirs"
    /\ jpc' = "except"
    /\ UNCHANGED <<stage, started, timing, errors, scraping, llm, database,
                   fetch, batchfile, read, summaries, summary, saves, exports,
                   result>>
    /\ UNCHANGED <<dbvars, mainvars, batchvars, runvars, restvars>>

\* one SCRAPING_ERROR for each entry of api_errors (lines 258-264)
RECURSIVE ApiErrors(_)
ApiErrors(k) ==
    IF k = 0 THEN <<>>
    ELSE Append(ApiErrors(k - 1), Error("SCRAPING_ERROR", "scraping"))

\* scrape_papers, lines 249-269, with a feed that answers: n entries parse
\* and bad entries do not, each of those giving one entry of api_errors
ScrapeFetchOk(n, bad) ==
    /\ jpc = "scrape_papers"
    /\ n + bad <= MaxFeed
    /\ fetch' = "ok"
    /\ scraping' = Increment(Increment(scraping, "papers_requested", MaxResults),
                             "metadata_fetched", n)
    /\ errors' = errors \o ApiErrors(bad)
    /\ jpc' = "scrape_save"
    /\ UNCHANGED <<stage, exc, started, timing, llm, database,
                   batchfile, read, summaries, summary, saves, exports,
                   result>>
    /\ UNCHANGED <<dbvars, mainvars, batchvars, runvars, restvars>>

\* a failed feed request that get_arxiv_metadata lets escape: scrape_papers
\* raises to the controller
ScrapeFetchTransportFailure_Raises ==
    /\ jpc = "scrape_papers"
    /\ fetch' = "transport_failure"
    /\ scraping' = Increment(scraping, "papers_requested", MaxResults)
    /\ exc' = "fetch"
    /\ jpc' = "except"
    /\ UNCHANGED <<stage, started, timing, errors, llm, database, batchfile,
                   read, summaries, summary, saves, exports, result>>
    /\ UNCHANGED <<dbvars, mainvars, batchvars, runvars, restvars>>

\* scrape_papers, lines 249-269, with a failed feed request (HTTP error, URL
\* error, timeout, unparseable feed): get_arxiv_metadata returns no records
\* and one error, which is recorded; scrape_papers goes on
ScrapeFetchTransportFailure ==
    /\ jpc = "scrape_papers"
    /\ fetch' = "transport_failure"
    /\ scraping' = Increment(scraping, "papers_requested", MaxResults)
    /\ RecordError("SCRAPING_ERROR", "scraping")
    /\ jpc' = "scrape_save"
    /\ UNCHANGED <<stage, exc, started, timing, llm, database, batchfile,
                   read, summaries, summary, saves, exports, result>>
    /\ UNCHANGED <<dbvars, mainvars, batchvars, runvars, restvars>>

\* scrape_papers, lines 271-331: the loops over the fetched records, then the
\* batch file is written and the counts are returned
ScrapeSave ==
    /\ jpc = "scrape_save"
    /\ batchfile' = [state |-> "json", n |-> scraping.metadata_fetched]
    /\ jpc' = "finally"
    /\ UNCHANGED <<stage, exc, started, timing, errors, scraping, llm,
                   database, fetch, read, summaries, summary, saves, exports,
                   result>>
    /\ UNCHANGED <<dbvars, mainvars, batchvars, runvars, restvars>>

\* scrape_papers, lines 323-327: the batch file cannot be written
ScrapeSaveRaises ==
    /\ jpc = "scrape_save"
    /\ batchfile' \in {batchfile, [state |-> "garbage", n |-> 0]}
    /\ exc' = "write"
    /\ jpc' = "except"
    /\ UNCHANGED <<stage, started, timing, errors, scraping, llm, database,
                   fetch, read, summaries, summary, saves, exports, result>>
    /\ UNCHANGED <<dbvars, mainvars, batchvars, runvars, restvars>>

\* generate_keywords_and_defs, lines 330-346: the batch file is missing or
\* is not JSON; the error is recorded and (0, 0, 0) is returned
EnrichLoadRejected ==
    /\ jpc = "generate_keywords_and_defs"
    /\ \E r \in {"not_found", "invalid_json"} :
           /\ read' = r
           /\ batchfile' = [state |-> IF r = "not_found" THEN "missing"
                                      ELSE "garbage", n |-> 0]
    /\ RecordError("VALIDATION_ERROR", "llm_processing")
    /\ jpc' = "finally"
    /\ UNCHANGED <<stage, exc, started, timing, scraping, llm, database,
                   fetch, summaries, summary, saves, exports, result>>
    /\ UNCHANGED <<dbvars, mainvars, batchvars, runvars, restvars>>

\* generate_keywords_and_defs, lines 330-332: open() fails in another way
\* (PermissionError, IsADirectoryError), which no except clause names
EnrichLoadRaises ==
    /\ jpc = "generate_keywords_and_defs"
    /\ read' = "unreadable"
    /\ exc' = "read"
    /\ jpc' = "except"
    /\ UNCHANGED <<stage, started, timing, errors, scraping, llm, database,
                   fetch, batchfile, summaries, summary, saves, exports,
                   result>>
    /\ UNCHANGED <<dbvars, mainvars, batchvars, runvars, restvars>>

\* generate_keywords_and_defs, lines 330-495, with a batch file that loads:
\* every record is processed and the batch is written back; a failing write
\* is recorded and swallowed (lines 483-487)
EnrichBatch ==
    /\ jpc = "generate_keywords_and_defs"
    /\ batchfile.state = "json"
    /\ read' = "ok"
    /\ llm' = Increment(llm, "papers_processed", batchfile.n)
    /\ \/ UNCHANGED <<batchfile, errors>>
       \/ /\ batchfile' = [state |-> "garbage", n |-> 0]
          /\ RecordError("VALIDATION_ERROR", "llm_processing")
    /\ jpc' = "finally"
    /\ UNCHANGED <<stage, exc, started, timing, scraping, database, fetch,
                   summaries, summary, saves, exports, result>>
    /\ UNCHANGED <<dbvars, mainvars, batchvars, runvars, restvars>>

\* main.py lines 120-124: the call passes metrics=, a keyword that
\* dump_metadata_to_db(json_filepath, db_path, verbose=False) does not take;
\* Python raises TypeError before the function body runs
DumpCallRaises ==
    /\ jpc = "dump_metadata_to_db"
    /\ exc' = "call"
    /\ jpc' = "except"
    /\ UNCHANGED <<stage, started, timing, errors, scraping, llm, database,
                   fetch, batchfile, read, summaries, summary, saves, exports,
                   result>>
    /\ UNCHANGED <<dbvars, mainvars, batchvars, runvars, restvars>>

\* an except clause without its raise statement: the error is recorded and
\* the exception ends there
StageExcept_Swallows ==
    /\ jpc = "except"
    /\ RecordError("PIPELINE_ERROR", stage)
    /\ exc' = "none"
    /\ jpc' = "finally"
    /\ UNCHANGED <<stage, started, timing, scraping, llm, database,
                   fetch, batchfile, read, summaries, summary, saves, exports,
                   result>>
    /\ UNCHANGED <<dbvars, mainvars, batchvars, runvars, restvars>>

\* the except clause of a stage (lines 75-82, 102-109, 128-135)
StageExcept ==
    /\ jpc = "except"
    /\ RecordError("PIPELINE_ERROR", stage)
    /\ jpc' = "finally"
    /\ UNCHANGED <<stage, exc, started, timing, scraping, llm, database,
                   fetch, batchfile, read, summaries, summary, saves, exports,
                   result>>
    /\ UNCHANGED <<dbvars, mainvars, batchvars, runvars, restvars>>

\* the function the stage after s calls
CallOf(s) ==
    IF s = "scraping" THEN "generate_keywords_and_defs"
    ELSE "dump_metadata_to_db"

NextStage(s) == IF s = "scraping" THEN "llm_processing" ELSE "database"

\* a stage whose duration is recorded only when its call returned: end_stage
\* after the call instead of in a finally clause
StageFinally_NoFinally ==
    /\ jpc = "finally"
    /\ IF exc # "none"
       THEN /\ jpc' = "outer_except"
            /\ UNCHANGED <<stage, started, timing, starts, ends>>
       ELSE /\ ends' = [ends EXCEPT ![stage] = @ + 1]
            /\ timing' = timing \cup {stage}
            /\ IF stage = "database"
               THEN /\ jpc' = "summary"
                    /\ started' = started \ {stage}
                    /\ UNCHANGED <<stage, starts>>
               ELSE /\ jpc' = CallOf(stage)
                    /\ started' = (started \ {stage}) \cup {NextStage(stage)}
                    /\ starts' = [starts EXCEPT ![NextStage(stage)] = @ + 1]
                    /\ stage' = NextStage(stage)
    /\ UNCHANGED <<exc, errors, scraping, llm, database, fetch, batchfile,
                   read, summaries, summary, saves, exports, result>>
    /\ UNCHANGED <<dbvars, exit_status, batchvars, runvars, restvars>>

\* the finally clause of a stage: metrics.end_stage, which raises ValueError
\* for a stage that is not being timed (the ValueError then replaces the
\* exception in flight); then the exception goes on, an Exception to line 150
\* and a KeyboardInterrupt out of job(), or the next stage is started, or
\* line 139 is reached
StageFinally ==
    /\ jpc = "finally"
    /\ ends' = [ends EXCEPT ![stage] = @ + 1]
    /\ IF stage \notin started
       THEN /\ exc' = "not_started"
            /\ jpc' = "outer_except"
            /\ UNCHANGED <<stage, started, timing, starts>>
       ELSE /\ timing' = timing \cup {stage}
            /\ UNCHANGED exc
            /\ IF exc = "interrupt"
               THEN /\ jpc' = "propagate"
                    /\ started' = started \ {stage}
                    /\ UNCHANGED <<stage, starts>>
               ELSE IF exc # "none"
               THEN /\ jpc' = "outer_except"
                    /\ started' = started \ {stage}
                    /\ UNCHANGED <<stage, starts>>
               ELSE IF stage = "database"
               THEN /\ jpc' = "summary"
                    /\ started' = started \ {stage}
                    /\ UNCHANGED <<stage, starts>>
               ELSE /\ jpc' = CallOf(stage)
                    /\ started' = (started \ {stage}) \cup {NextStage(stage)}
                    /\ starts' = [starts EXCEPT ![NextStage(stage)] = @ + 1]
                    /\ stage' = NextStage(stage)
    /\ UNCHANGED <<errors, scraping, llm, database, fetch, batchfile,
                   read, summaries, summary, saves, exports, result>>
    /\ UNCHANGED <<dbvars, exit_status, batchvars, runvars, restvars>>

\* job() without lines 154-155: only a run whose stages all complete prints
\* its summary
PrintSummary_OnlyOnSuccess ==
    /\ jpc \in {"summary", "outer_except"}
    /\ summaries' = IF jpc = "summary" THEN summaries + 1 ELSE summaries
    /\ summary' = IF jpc = "summary" THEN Snapshot ELSE summary
    /\ jpc' = "save"
    /\ rendered' = IF jpc = "summary"
                   THEN get_summary(Snapshot, 1) ELSE rendered
    /\ UNCHANGED <<stage, exc, started, timing, errors, scraping, llm,
                   database, fetch, batchfile, read, saves, exports, result>>
    /\ UNCHANGED <<dbvars, mainvars, batchvars, runvars, cleanvars, histvars>>

\* lines 139-143 (all stages complete) and lines 150-155 (a stage raised):
\* get_summary is computed and logged
PrintSummary ==
    /\ jpc \in {"summary", "outer_except"}
    /\ summaries' = summaries + 1
    /\ summary' = Snapshot
    /\ \E total_time \in TotalTimes :
           rendered' = get_summary(Snapshot, total_time)
    /\ jpc' = "save"
    /\ UNCHANGED <<stage, exc, started, timing, errors, scraping, llm,
                   database, fetch, batchfile, read, saves, exports, result>>
    /\ UNCHANGED <<dbvars, mainvars, batchvars, runvars, cleanvars, histvars>>

\* save_metrics_history (lines 144 and 158): one line is appended; a failure
\* of mkdir, open or write is logged and swallowed (lines 45-46)
SaveMetricsHistory ==
    /\ jpc = "save"
    /\ saves' = saves + 1
    /\ exports' \in {exports + 1, exports}
    /\ jpc' = "end"
    /\ UNCHANGED <<stage, exc, started, timing, errors, scraping, llm,
                   database, fetch, batchfile, read, summaries, summary,
                   result>>
    /\ UNCHANGED <<dbvars, mainvars, batchvars, runvars, restvars>>

\* line 148: job() returns; line 164: job() raises the exception again
JobEnds ==
    /\ jpc = "end"
    /\ result' = IF exc = "none" THEN "returned" ELSE "raised"
    /\ jpc' = "done"
    /\ UNCHANGED <<stage, exc, started, timing, errors, scraping, llm,
                   database, fetch, batchfile, read, summaries, summary,
                   saves, exports>>
    /\ UNCHANGED <<dbvars, mainvars, batchvars, runvars, restvars>>

NextJob ==
    \/ StartScraping
    \/ ScrapeSetupRaises
    \/ \E n, bad \in 0..MaxFeed : ScrapeFetchOk(n, bad)
    \/ ScrapeFetchTransportFailure
    \/ ScrapeSave
    \/ ScrapeSaveRaises
    \/ EnrichLoadRejected
    \/ EnrichLoadRaises
    \/ EnrichBatch
    \/ DumpCallRaises
    \/ StageExcept
    \/ StageFinally
    \/ PrintSummary
    \/ SaveMetricsHistory
    \/ JobEnds

----------------------------------------------------------------------------
(* the main block (main.py lines 185-197) *)

\* the user interrupts the run: KeyboardInterrupt is raised where job() is.
\* No except clause of job() names it (they name Exception): inside a stage
\* the finally clause still runs, elsewhere it leaves job() at once
Interrupt ==
    /\ jpc \in {"start", "scrape_papers", "scrape_save",
                "generate_keywords_and_defs", "dump_metadata_to_db", "except",
                "summary", "outer_except", "save", "end"}
    /\ exc' = "interrupt"
    /\ jpc' = IF jpc \in {"start", "summary", "outer_except", "save", "end"}
              THEN "propagate" ELSE "finally"
    /\ UNCHANGED <<stage, started, timing, errors, scraping, llm, database,
                   fetch, batchfile, read, summaries, summary, saves, exports,
                   result>>
    /\ UNCHANGED <<dbvars, mainvars, batchvars, runvars, restvars>>

\* an exit that reports success whatever job() did: the main block without
\* its sys.exit(1)
MainExit_AlwaysZero ==
    /\ jpc = "done"
    /\ exit_status' = 0
    /\ jpc' = "exited"
    /\ UNCHANGED <<stage, exc, started, timing, errors, scraping, llm,
                   database, fetch, batchfile, read, summaries, summary,
                   saves, exports, result>>
    /\ UNCHANGED <<dbvars, starts, ends, batchvars, runvars, restvars>>

\* lines 190-191 and 195-197: after job() returned, clean_papers runs (it
\* swallows its exceptions) and the script ends, exit status 0; after job()
\* raised an Exception, sys.exit(1)
MainExit ==
    /\ jpc = "done"
    /\ exit_status' = IF result = "returned" THEN 0 ELSE 1
    /\ jpc' = "exited"
    /\ UNCHANGED <<stage, exc, started, timing, errors, scraping, llm,
                   database, fetch, batchfile, read, summaries, summary,
                   saves, exports, result>>
    /\ UNCHANGED <<dbvars, starts, ends, batchvars, runvars, restvars>>

\* lines 192-194: job() ended with KeyboardInterrupt, sys.exit(0)
MainKeyboardInterrupt ==
    /\ jpc = "propagate"
    /\ result' = "interrupted"
    /\ exit_status' = 0
    /\ jpc' = "exited"
    /\ UNCHANGED <<stage, exc, started, timing, errors, scraping, llm,
                   database, fetch, batchfile, read, summaries, summary,
                   saves, exports>>
    /\ UNCHANGED <<dbvars, starts, ends, batchvars, runvars, restvars>>

NextMain ==
    \/ NextJob
    \/ Interrupt
    \/ MainExit
    \/ MainKeyboardInterrupt

----------------------------------------------------------------------------
(* scrape_papers and generate_keywords_and_defs, record by record *)

\* a field no stage has set, a list, a mapping
Absent == [t |-> "absent", v |-> <<>>]
List(v) == [t |-> "list", v |-> v]
Dict(v) == [t |-> "dict", v |-> v]

\* an entry of the feed: with a link titled pdf, without one, or one whose
\* fields make the extraction of lines 119-155 raise
Entries == {"pdf_link", "no_pdf_link", "malformed"}

Feeds == UNION {[1..n -> Entries] : n \in 0..MaxFeed}

\* str(uuid.uuid4()): a value no earlier call has returned; made is the
\* number of the calls made before this one
Uuid4(made) == [uuid4 |-> made]

\* scrapers.py lines 127-154: the record made of an entry, with the uuid
\* drawn for it; it has no keywords and no definitions field yet
Record(entry, made) ==
    [uuid |-> Uuid4(made),
     pdf_url |-> IF entry = "pdf_link" THEN "url" ELSE "null",
     full_text |-> "null", keywords |-> Absent, definitions |-> Absent]

\* how the request and the parse of its response can end without a feed to
\* read entries from: the exceptions of lines 51-94 and of line 99
TransportFailures ==
    {"HTTPError", "URLError", "TimeoutError", "OtherError", "ParseError"}

\* a response: a failure, a body that is no feed (feedparser does not raise
\* on one: it returns a feed marked bozo, here without entries), or a feed
Failed(kind) == [kind |-> kind, entries |-> <<>>]
Unparseable == [kind |-> "bozo", entries |-> <<>>]
Feed(entries) == [kind |-> "feed", entries |-> entries]

\* a loop that counts every entry, parsed or not
RECURSIVE ParseLoop_CountsEveryEntry(_, _, _, _)
ParseLoop_CountsEveryEntry(entries, paper_num, records, errs) ==
    IF entries = <<>> THEN [records |-> records, errors |-> errs]
    ELSE IF Head(entries) = "malformed"
    THEN ParseLoop_CountsEveryEntry(
             Tail(entries), paper_num + 1, records,
             Append(errs, [type |-> "EntryParseError", paper_num |-> paper_num]))
    ELSE ParseLoop_CountsEveryEntry(
             Tail(entries), paper_num + 1,
             Append(records, [key |-> paper_num, record |-> Record(Head(entries), Len(records))]),
             errs)

\* scrapers.py lines 114-165: the loop over the entries. An entry that parses
\* is stored under paper_num, which then goes up by one; an entry that raises
\* adds an error and is skipped. records is the mapping in insertion order
RECURSIVE ParseLoop(_, _, _, _)
ParseLoop(entries, paper_num, records, errs) ==
    IF entries = <<>> THEN [records |-> records, errors |-> errs]
    ELSE IF Head(entries) = "malformed"
    THEN ParseLoop(
             Tail(entries), paper_num, records,
             Append(errs, [type |-> "EntryParseError", paper_num |-> paper_num]))
    ELSE ParseLoop(
             Tail(entries), paper_num + 1,
             Append(records, [key |-> paper_num, record |-> Record(Head(entries), Len(records))]),
             errs)

\* scrapers.py lines 23-169: what get_arxiv_metadata returns
get_arxiv_metadata(response) ==
    IF response.kind \in TransportFailures
    THEN [records |-> <<>>, errors |-> <<[type |-> response.kind]>>]
    ELSE IF response.entries = <<>>
    THEN [records |-> <<>>, errors |-> <<>>]
    ELSE ParseLoop(response.entries, 0, <<>>, <<>>)

\* a structured error with the record and the operation in its context
ErrorFor(category, op, id) ==
    [category |-> category,
     stage |-> IF op \in {"download", "extract"} THEN "scraping"
               ELSE "llm_processing",
     op |-> op, paper_id |-> id]

\* scrape_papers lines 305-310: the error of a failed download, with the
\* record's URL in its context
DownloadError(id, pdf_url) ==
    [category |-> "SCRAPING_ERROR", stage |-> "scraping", op |-> "download",
     paper_id |-> id, url |-> pdf_url]

Call(op, id, outcome) == [op |-> op, paper_id |-> id, outcome |-> outcome]

\* a definition request, with the value its response evaluated to
DefinitionCall(id, outcome, value) ==
    [op |-> "definitions", paper_id |-> id, outcome |-> outcome,
     value |-> value]

\* a tuple, as ast.literal_eval makes of "('d1',)"
JTuple(s) == [t |-> "tuple", s |-> s]

\* json.dump on a value of a definitions mapping: a string stays a string,
\* None becomes null, a tuple or a list becomes an array
DumpValue(x) ==
    IF x.t \in {"tuple", "list"} THEN [t |-> "array", s |-> x.s] ELSE x

\* json.load on such a value: an array becomes a list
LoadValue(j) ==
    IF j.t = "array" THEN [t |-> "list", s |-> j.s] ELSE j

\* json.dump on the keywords or definitions field of a record: a list
\* becomes an array, a mapping an object with its values dumped, and a field
\* the record does not have is not written
DumpField(f) ==
    IF f.t = "list" THEN [t |-> "array", v |-> f.v]
    ELSE IF f.t = "dict"
    THEN [t |-> "object",
          v |-> [n \in 1..Len(f.v) |-> Item(f.v[n].k, DumpValue(f.v[n].v))]]
    ELSE f

LoadField(j) ==
    IF j.t = "array" THEN [t |-> "list", v |-> j.v]
    ELSE IF j.t = "object"
    THEN [t |-> "dict",
          v |-> [n \in 1..Len(j.v) |-> Item(j.v[n].k, LoadValue(j.v[n].v))]]
    ELSE j

\* json.dump(metadata_dict, f) and json.load(f) on the records: uuid, pdf_url
\* and full_text are strings or None and are read back as written
json_dump(records) ==
    [n \in 1..Len(records) |->
        [records[n] EXCEPT !.keywords = DumpField(@),
                           !.definitions = DumpField(@)]]

json_load(document) ==
    [n \in 1..Len(document) |->
        [document[n] EXCEPT !.keywords = LoadField(@),
                            !.definitions = LoadField(@)]]

\* the records json.load reads from the batch file
Loaded == json_load(metadata_file.document)

InitBatch ==
    /\ bpc = "fetch"
    /\ metadata_dict = <<>>
    /\ metadata_file = [state |-> "missing", keys |-> <<>>, document |-> <<>>]
    /\ pdfs = {}
    /\ calls = <<>>
    /\ paper_id = 0
    /\ kwds = <<>>

\* no call of scrape_papers has returned yet
InitRun ==
    /\ run = 1
    /\ num_pdfs_downloaded = 0
    /\ first = [returned |-> 0, calls |-> 0, pdfs |-> {}]
    /\ api = [response |-> Feed(<<>>), records |-> <<>>, errors |-> <<>>]

\* the record the loop is at
Current == metadata_dict[paper_id]

\* the loop goes to its next record, or ends and the code after it runs
Advance(after) ==
    IF paper_id < Len(metadata_dict)
    THEN paper_id' = paper_id + 1 /\ bpc' = bpc
    ELSE paper_id' = 1 /\ bpc' = after

\* scrape_papers lines 249-271: the records are taken in the order of the
\* mapping returned, each entry of api_errors is recorded, the count of the
\* downloaded PDFs starts at 0. The record under key k is paper k + 1 here
Fetched(response) ==
    LET returned == get_arxiv_metadata(response)
    IN /\ api' = [response |-> response, records |-> returned.records,
                  errors |-> returned.errors]
       /\ metadata_dict' = [n \in 1..Len(returned.records) |->
                               returned.records[n].record]
       /\ scraping' =
              Increment(Increment(scraping, "papers_requested", MaxResults),
                        "metadata_fetched", Len(returned.records))
       /\ errors' = errors \o ApiErrors(Len(returned.errors))
       /\ bpc' = IF returned.records = <<>> THEN "save" ELSE "download"
       /\ paper_id' = 1
       /\ num_pdfs_downloaded' = 0

\* scrape_papers lines 249-271 with a feed that answers
FetchMetadata(feed) ==
    /\ bpc = "fetch"
    /\ Fetched(Feed(feed))
    /\ calls' = [n \in 1..Len(feed) |-> Call("entry", n, feed[n])]
    /\ UNCHANGED <<llm, metadata_file, pdfs, kwds, run, first>>
    /\ UNCHANGED <<ctrlvars, mainvars, dbvars, restvars>>

\* scrape_papers lines 249-271 with a request that fails or a response that
\* is no feed: no records
FetchMetadataFails(response) ==
    /\ bpc = "fetch"
    /\ Fetched(response)
    /\ UNCHANGED <<llm, metadata_file, pdfs, calls, kwds, run, first>>
    /\ UNCHANGED <<ctrlvars, mainvars, dbvars, restvars>>

\* a download loop that does not test pdf_url: the download is attempted
\* with no URL and fails
DownloadNoUrl_Attempts ==
    /\ bpc = "download"
    /\ Current.pdf_url = "null"
    /\ scraping' = Increment(Increment(scraping, "pdfs_attempted", 1),
                             "pdfs_failed", 1)
    /\ calls' = Append(calls, Call("download", paper_id, "failed"))
    /\ errors' = Append(errors, ErrorFor("SCRAPING_ERROR", "download", paper_id))
    /\ Advance("extract")
    /\ UNCHANGED <<llm, metadata_dict, metadata_file, pdfs, kwds>>
    /\ UNCHANGED <<ctrlvars, mainvars, dbvars, runvars, restvars>>

\* lines 273-278: a record without a document URL is passed over
DownloadNoUrl ==
    /\ bpc = "download"
    /\ Current.pdf_url = "null"
    /\ Advance("extract")
    /\ UNCHANGED <<errors, scraping, llm, metadata_dict, metadata_file, pdfs,
                   calls, kwds>>
    /\ UNCHANGED <<ctrlvars, mainvars, dbvars, runvars, restvars>>

\* a download loop that passes over an existing file without counting it
DownloadExists_NotCounted ==
    /\ bpc = "download"
    /\ Current.pdf_url = "url"
    /\ paper_id \in pdfs \/ run = 1
    /\ pdfs' = pdfs \cup {paper_id}
    /\ Advance("extract")
    /\ UNCHANGED <<errors, scraping, llm, metadata_dict, metadata_file, calls,
                   kwds, run, num_pdfs_downloaded, first, api>>
    /\ UNCHANGED <<ctrlvars, mainvars, dbvars, restvars>>

\* a download loop that sleeps before it looks for the file
DownloadExists_Delays ==
    /\ bpc = "download"
    /\ Current.pdf_url = "url"
    /\ paper_id \in pdfs \/ run = 1
    /\ pdfs' = pdfs \cup {paper_id}
    /\ num_pdfs_downloaded' = num_pdfs_downloaded + 1
    /\ Advance("extract")
    /\ calls' = Append(calls, Call("sleep", paper_id, "delay"))
    /\ UNCHANGED <<errors, scraping, llm, metadata_dict, metadata_file,
                   kwds, run, first, api>>
    /\ UNCHANGED <<ctrlvars, mainvars, dbvars, restvars>>

\* lines 280-288: the file is in the save directory already; nothing is
\* attempted and the record is counted as downloaded. What the directory
\* held before the first call is found out here, file by file; from then on
\* only the files known to be there are there
DownloadExists ==
    /\ bpc = "download"
    /\ Current.pdf_url = "url"
    /\ paper_id \in pdfs \/ run = 1
    /\ pdfs' = pdfs \cup {paper_id}
    /\ num_pdfs_downloaded' = num_pdfs_downloaded + 1
    /\ Advance("extract")
    /\ UNCHANGED <<errors, scraping, llm, metadata_dict, metadata_file, calls,
                   kwds, run, first, api>>
    /\ UNCHANGED <<ctrlvars, mainvars, dbvars, restvars>>

\* a download loop that does not look for the file first
DownloadPdf_IgnoresExisting(success, file) ==
    /\ bpc = "download"
    /\ Current.pdf_url = "url"
    /\ success => file
    /\ pdfs' = IF file THEN pdfs \cup {paper_id} ELSE pdfs
    /\ calls' = calls \o <<Call("sleep", paper_id, "delay"),
                           Call("download", paper_id,
                                IF success THEN "ok" ELSE "failed")>>
    /\ IF success
       THEN /\ scraping' = Increment(Increment(scraping, "pdfs_attempted", 1),
                                     "pdfs_downloaded", 1)
            /\ UNCHANGED errors
       ELSE /\ scraping' = Increment(Increment(scraping, "pdfs_attempted", 1),
                                     "pdfs_failed", 1)
            /\ errors' = Append(errors,
                                DownloadError(paper_id, Current.pdf_url))
    /\ num_pdfs_downloaded' =
           IF success THEN num_pdfs_downloaded + 1 ELSE num_pdfs_downloaded
    /\ Advance("extract")
    /\ UNCHANGED <<llm, metadata_dict, metadata_file, kwds, run, first, api>>
    /\ UNCHANGED <<ctrlvars, mainvars, dbvars, restvars>>

\* a download loop that a failed download ends: the failure is raised
DownloadPdf_FailureStops(success, file) ==
    /\ bpc = "download"
    /\ Current.pdf_url = "url"
    /\ paper_id \notin pdfs
    /\ success => file
    /\ pdfs' = IF file THEN pdfs \cup {paper_id} ELSE pdfs
    /\ calls' = calls \o <<Call("sleep", paper_id, "delay"),
                           Call("download", paper_id,
                                IF success THEN "ok" ELSE "failed")>>
    /\ IF success
       THEN /\ scraping' = Increment(Increment(scraping, "pdfs_attempted", 1),
                                     "pdfs_downloaded", 1)
            /\ UNCHANGED errors
       ELSE /\ scraping' = Increment(Increment(scraping, "pdfs_attempted", 1),
                                     "pdfs_failed", 1)
            /\ errors' = Append(errors,
                                DownloadError(paper_id, Current.pdf_url))
    /\ num_pdfs_downloaded' =
           IF success THEN num_pdfs_downloaded + 1 ELSE num_pdfs_downloaded
    /\ IF success THEN Advance("extract")
       ELSE bpc' = "scrape_raised" /\ paper_id' = paper_id
    /\ UNCHANGED <<llm, metadata_dict, metadata_file, kwds, run, first, api>>
    /\ UNCHANGED <<ctrlvars, mainvars, dbvars, restvars>>

\* lines 290-310 with download_pdf: after the delay of line 294 the download
\* is attempted; a failed one
\* is counted and recorded, and urlretrieve may have left a partial file
DownloadPdf(success, file) ==
    /\ bpc = "download"
    /\ Current.pdf_url = "url"
    /\ paper_id \notin pdfs
    /\ success => file
    /\ pdfs' = IF file THEN pdfs \cup {paper_id} ELSE pdfs
    /\ calls' = calls \o <<Call("sleep", paper_id, "delay"),
                           Call("download", paper_id,
                                IF success THEN "ok" ELSE "failed")>>
    /\ IF success
       THEN /\ scraping' = Increment(Increment(scraping, "pdfs_attempted", 1),
                                     "pdfs_downloaded", 1)
            /\ UNCHANGED errors
       ELSE /\ scraping' = Increment(Increment(scraping, "pdfs_attempted", 1),
                                     "pdfs_failed", 1)
            /\ errors' = Append(errors,
                                DownloadError(paper_id, Current.pdf_url))
    /\ num_pdfs_downloaded' =
           IF success THEN num_pdfs_downloaded + 1 ELSE num_pdfs_downloaded
    /\ Advance("extract")
    /\ UNCHANGED <<llm, metadata_dict, metadata_file, kwds, run, first, api>>
    /\ UNCHANGED <<ctrlvars, mainvars, dbvars, restvars>>

\* extract_text lines 179-182: a record without a document URL is passed over
ExtractNoUrl ==
    /\ bpc = "extract"
    /\ Current.pdf_url = "null"
    /\ Advance("save")
    /\ UNCHANGED <<errors, scraping, llm, metadata_dict, metadata_file, pdfs,
                   calls, kwds>>
    /\ UNCHANGED <<ctrlvars, mainvars, dbvars, runvars, restvars>>

\* extract_text lines 184-190: the file is not there; a warning is logged
ExtractFileMissing ==
    /\ bpc = "extract"
    /\ Current.pdf_url = "url"
    /\ paper_id \notin pdfs
    /\ Advance("save")
    /\ UNCHANGED <<errors, scraping, llm, metadata_dict, metadata_file, pdfs,
                   calls, kwds>>
    /\ UNCHANGED <<ctrlvars, mainvars, dbvars, runvars, restvars>>

\* extract_text lines 192-219: the extraction is attempted. It gives text, or
\* no text without an error (a file without extractable text, or text that
\* clean_text reduces to nothing), or an error
ExtractText(outcome) ==
    /\ bpc = "extract"
    /\ Current.pdf_url = "url"
    /\ paper_id \in pdfs
    /\ calls' = Append(calls, Call("extract", paper_id, outcome))
    /\ IF outcome = "text"
       THEN /\ metadata_dict' =
                   [metadata_dict EXCEPT ![paper_id].full_text = "text"]
            /\ scraping' =
                   Increment(Increment(scraping, "text_extraction_attempted", 1),
                             "text_extraction_succeeded", 1)
            /\ UNCHANGED errors
       ELSE /\ metadata_dict' =
                   [metadata_dict EXCEPT ![paper_id].full_text = "null"]
            /\ scraping' =
                   Increment(Increment(scraping, "text_extraction_attempted", 1),
                             "text_extraction_failed", 1)
            /\ errors' = Append(errors,
                                ErrorFor("SCRAPING_ERROR", "extract", paper_id))
    /\ Advance("save")
    /\ UNCHANGED <<llm, metadata_file, pdfs, kwds>>
    /\ UNCHANGED <<ctrlvars, mainvars, dbvars, runvars, restvars>>

\* scrape_papers lines 322-331: the records are written to the metadata file,
\* each integer key as its decimal string,
\* and scrape_papers returns; the controller calls generate_keywords_and_defs
SaveMetadata ==
    /\ bpc = "save"
    /\ metadata_file' =
           [state |-> "json",
            keys |-> [n \in 1..Len(api.records) |-> ToStr(api.records[n].key)],
            document |-> json_dump(metadata_dict)]
    /\ bpc' = "load"
    /\ UNCHANGED <<errors, scraping, llm, metadata_dict, pdfs, calls,
                   paper_id, kwds>>
    /\ UNCHANGED <<ctrlvars, mainvars, dbvars, runvars, restvars>>

\* scrape_papers lines 323-327: the metadata file cannot be written and
\* scrape_papers raises
SaveMetadataRaises ==
    /\ bpc = "save"
    /\ bpc' = "scrape_raised"
    /\ UNCHANGED <<errors, scraping, llm, metadata_dict, metadata_file, pdfs,
                   calls, paper_id, kwds>>
    /\ UNCHANGED <<ctrlvars, mainvars, dbvars, runvars, restvars>>

\* scrape_papers is called again for the same date, with the same metrics
\* object, and the feed answers as before (lines 238-271): the records are as
\* fetched but for the uuid, which is drawn again for each; the save
\* directory is as the first call left it
RunAgain ==
    /\ bpc = "load"
    /\ run = 1
    /\ run' = 2
    /\ first' = [returned |-> num_pdfs_downloaded, calls |-> Len(calls),
                 pdfs |-> pdfs]
    /\ metadata_dict' =
           [n \in 1..Len(metadata_dict) |->
               [metadata_dict[n] EXCEPT
                   !.full_text = "null",
                   !.uuid = Uuid4(Len(metadata_dict) + n - 1)]]
    /\ scraping' = Increment(Increment(scraping, "papers_requested", MaxResults),
                             "metadata_fetched", Len(metadata_dict))
    /\ errors' = errors \o ApiErrors(Cardinality(
                     {n \in 1..Len(calls) : calls[n] = Call("entry", n, "malformed")}))
    /\ num_pdfs_downloaded' = 0
    /\ paper_id' = 1
    /\ bpc' = IF metadata_dict = <<>> THEN "save" ELSE "download"
    /\ UNCHANGED <<llm, metadata_file, pdfs, calls, kwds, api>>
    /\ UNCHANGED <<ctrlvars, mainvars, dbvars, restvars>>

NextScrape ==
    \/ \E feed \in Feeds : FetchMetadata(feed)
    \/ \E response \in {Failed(kind) : kind \in TransportFailures}
                          \cup {Unparseable} :
           FetchMetadataFails(response)
    \/ DownloadNoUrl
    \/ DownloadExists
    \/ \E success, file \in BOOLEAN : DownloadPdf(success, file)
    \/ ExtractNoUrl
    \/ ExtractFileMissing
    \/ \E outcome \in {"text", "empty", "error"} : ExtractText(outcome)
    \/ SaveMetadata
    \/ SaveMetadataRaises

----------------------------------------------------------------------------
(* clean_papers and the save directories *)

\* main.py line 172: timedelta(days=7)
RetentionDays == 7

\* no directory yet, clean_papers not called yet
InitClean ==
    /\ today = 0
    /\ dirs = {}
    /\ cleaned = "none"

\* scrape_papers lines 238-240: a run of the pipeline makes the save
\* directory of its date
MakeSaveDir ==
    /\ dirs' = dirs \cup {today}
    /\ UNCHANGED <<today, cleaned>>
    /\ UNCHANGED <<dbvars, jobvars, mainvars, batchvars, runvars, summvars,
                   histvars>>

\* midnight passes
NextDay ==
    /\ today < MaxDay
    /\ today' = today + 1
    /\ cleaned' = "none"
    /\ UNCHANGED dirs
    /\ UNCHANGED <<dbvars, jobvars, mainvars, batchvars, runvars, summvars,
                   histvars>>

\* clean_papers lines 171-182: the directory of the day seven days back is
\* removed if it exists; an exception of rmtree is logged and swallowed, and
\* the directory is then still there
clean_papers(rmtree_ok) ==
    /\ LET expired == today - RetentionDays
       IN IF expired \in dirs
          THEN IF rmtree_ok
               THEN dirs' = dirs \ {expired} /\ cleaned' = "removed"
               ELSE dirs' = dirs /\ cleaned' = "failed"
          ELSE dirs' = dirs /\ cleaned' = "absent"
    /\ UNCHANGED today
    /\ UNCHANGED <<dbvars, jobvars, mainvars, batchvars, runvars, summvars,
                   histvars>>

----------------------------------------------------------------------------
(* save_metrics_history and the files of data/logs *)

\* the clock at the start of the first month, no log file yet
InitHistory ==
    /\ now = [month |-> 1, day |-> 1, minute |-> 0]
    /\ history = [name \in {} |-> <<>>]
    /\ saved = <<>>

\* the name of a log file, metrics_history_<first>-<second>-<third>.jsonl;
\* the year does not change here
HistoryFile(second, third) ==
    [first |-> "year", second |-> second, third |-> third]

\* main.py line 33: strftime("%Y-%M-%d") gives the year, the minute (%M is
\* the minute, %m the month) and the day of the month
strftime_Y_M_d(t) == HistoryFile(t.minute, t.day)

\* metrics.py lines 283-299: to_json is json.dumps(data, indent=2), a
\* document over several lines: the opening brace, the indented members and
\* the closing brace
to_json(r) ==
    <<[run |-> r, text |-> "{"], [run |-> r, text |-> "members"],
      [run |-> r, text |-> "}"]>>

\* main.py lines 25-46, the r-th call: the document and a newline are
\* appended to the file named after the clock, which open(..., "a") creates
\* if need be; an exception of mkdir, open or write is logged and swallowed
save_metrics_history(written) ==
    /\ Len(saved) < MaxRuns
    /\ LET r == Len(saved) + 1
           name == strftime_Y_M_d(now)
       IN /\ saved' = Append(saved, [run |-> r, at |-> now, name |-> name,
                                     written |-> written])
          /\ history' =
                 IF ~written THEN history
                 ELSE IF name \in DOMAIN history
                 THEN [history EXCEPT ![name] = @ \o to_json(r)]
                 ELSE history @@ (name :> to_json(r))
    /\ UNCHANGED now
    /\ UNCHANGED <<dbvars, jobvars, mainvars, batchvars, runvars, cleanvars,
                   summvars>>

\* the clock goes on by a minute, to the next day, to the next month
MinutePasses ==
    /\ now.minute < MaxMinute
    /\ now' = [now EXCEPT !.minute = @ + 1]
    /\ UNCHANGED <<history, saved>>
    /\ UNCHANGED <<dbvars, jobvars, mainvars, batchvars, runvars, cleanvars,
                   summvars>>

DayPasses ==
    /\ now.day < MaxDayOfMonth
    /\ now' = [now EXCEPT !.day = @ + 1, !.minute = 0]
    /\ UNCHANGED <<history, saved>>
    /\ UNCHANGED <<dbvars, jobvars, mainvars, batchvars, runvars, cleanvars,
                   summvars>>

MonthPasses ==
    /\ now.month < MaxMonth
    /\ now' = [month |-> now.month + 1, day |-> 1, minute |-> 0]
    /\ UNCHANGED <<history, saved>>
    /\ UNCHANGED <<dbvars, jobvars, mainvars, batchvars, runvars, cleanvars,
                   summvars>>

NextHistory ==
    \/ \E written \in BOOLEAN : save_metrics_history(written)
    \/ MinutePasses
    \/ DayPasses
    \/ MonthPasses

----------------------------------------------------------------------------
(* clean_papers, its Next *)

NextClean ==
    \/ MakeSaveDir
    \/ NextDay
    \/ \E rmtree_ok \in BOOLEAN : clean_papers(rmtree_ok)

----------------------------------------------------------------------------
(* generate_keywords_and_defs, record by record *)

\* what query_keywords returns: an error, or the model's response, which is
\* blank, or has no [...] span, or has one with these quoted strings in it
KeywordAnswers ==
    {[error |-> TRUE, text |-> "blank", quoted |-> <<>>]} \cup
    {[error |-> FALSE, text |-> t, quoted |-> <<>>] :
         t \in {"blank", "no_list", "list"}} \cup
    {[error |-> FALSE, text |-> "list", quoted |-> q] :
         q \in {<<"a">>, <<"a", "b">>}}

\* check_keywords: the keyword list and whether the parse succeeded
check_keywords(answer) ==
    IF answer.text = "list" /\ answer.quoted # <<>>
    THEN [keywords |-> answer.quoted, success |-> TRUE]
    ELSE [keywords |-> <<>>, success |-> FALSE]

\* the mappings a definition response can evaluate to
ParsedDicts ==
    { <<>>,
      <<Item(<<"a">>, JStr(<<"d1">>))>>,
      <<Item(<<"a">>, JStr(<<"d1">>)), Item(<<"b">>, JStr(NoneStr))>>,
      <<Item(<<"a">>, JStr(NoneStr)), Item(<<"b">>, JNull),
        Item(<<"c">>, JStr(<<>>))>>,
      <<Item(<<"a">>, JStr(<<"d1">>)), Item(<<SP, "a">>, JStr(<<"d2">>))>>,
      <<Item(<<"a">>, JTuple(<<"d1">>))>> }

\* what query_definitions returns: an error, or the model's response, which
\* is blank, or has no {...} span, or has one that ast.literal_eval turns
\* into a mapping, into a value of another type (a set), or that makes it
\* raise: ValueError, SyntaxError, or TypeError for an unhashable key
DefinitionAnswers ==
    {[error |-> TRUE, text |-> "blank", literal |-> "none", value |-> <<>>]}
    \cup
    {[error |-> FALSE, text |-> t, literal |-> "none", value |-> <<>>] :
         t \in {"blank", "no_span"}} \cup
    {[error |-> FALSE, text |-> "span", literal |-> l, value |-> <<>>] :
         l \in {"set", "ValueError", "SyntaxError", "TypeError"}} \cup
    {[error |-> FALSE, text |-> "span", literal |-> "dict", value |-> d] :
         d \in ParsedDicts}

\* the filter of line 265 without its test for 'None'
valid_defs_KeepsNone(definitions_dict) ==
    SelectSeq(definitions_dict,
              LAMBDA it : it.v # JNull /\ it.v # JStr(<<>>))

\* line 265: the entries whose value is truthy and is not 'None'
valid_defs(definitions_dict) ==
    SelectSeq(definitions_dict,
              LAMBDA it : it.v # JNull /\ it.v # JStr(<<>>)
                          /\ it.v # JStr(NoneStr))

\* check_definitions: the filtered mapping and whether the parse succeeded;
\* an exception of literal_eval that line 274 does not name leaves the
\* function
check_definitions(answer) ==
    IF answer.text # "span"
    THEN [definitions |-> <<>>, success |-> FALSE, raises |-> FALSE]
    ELSE IF answer.literal = "dict"
    THEN [definitions |-> valid_defs(answer.value), success |-> TRUE,
          raises |-> FALSE]
    ELSE IF answer.literal \in {"set", "ValueError", "SyntaxError"}
    THEN [definitions |-> <<>>, success |-> FALSE, raises |-> FALSE]
    ELSE [definitions |-> <<>>, success |-> FALSE, raises |-> TRUE]

\* clean_keywords: the entries with a truthy definition that is not 'None'
clean_keywords(definitions) == Len(valid_defs(definitions))

\* metadata_dict[str(i)] of line 357: the batch has a record under that key,
\* or KeyError leaves generate_keywords_and_defs. The keys of a batch file
\* are in ascending order, so the record under str(i) is record i + 1 here
HasKey(i) ==
    \E p \in 1..Len(metadata_file.keys) : metadata_file.keys[p] = ToStr(i)

\* a loop that stores each record under a uuid drawn anew
SetFields_NewUuid(ks, ds) ==
    /\ metadata_dict' = [metadata_dict EXCEPT
                            ![paper_id].keywords = List(ks),
                            ![paper_id].definitions = Dict(ds),
                            ![paper_id].uuid =
                                Uuid4(Len(metadata_dict) + paper_id - 1)]
    /\ IF paper_id < Len(metadata_dict)
       THEN /\ paper_id' = paper_id + 1
            /\ bpc' = IF HasKey(paper_id) THEN "record" ELSE "enrich_raised"
       ELSE paper_id' = 1 /\ bpc' = "write"

\* the record gets its two fields and the loop goes on to the record under
\* the next index (updated_dict holds every record the loop has passed)
SetFields(ks, ds) ==
    /\ metadata_dict' = [metadata_dict EXCEPT
                            ![paper_id].keywords = List(ks),
                            ![paper_id].definitions = Dict(ds)]
    /\ IF paper_id < Len(metadata_dict)
       THEN /\ paper_id' = paper_id + 1
            /\ bpc' = IF HasKey(paper_id) THEN "record" ELSE "enrich_raised"
       ELSE paper_id' = 1 /\ bpc' = "write"

\* lines 330-353: the batch file is loaded; a missing or unparseable file is
\* recorded and 0, 0, 0 is returned
LoadMetadata ==
    /\ bpc = "load"
    /\ IF metadata_file.state = "json"
       THEN /\ metadata_dict' = Loaded
            /\ bpc' = IF Loaded = <<>> THEN "write"
                      ELSE IF HasKey(0) THEN "record" ELSE "enrich_raised"
            /\ UNCHANGED errors
       ELSE /\ RecordError("VALIDATION_ERROR", "llm_processing")
            /\ bpc' = "returned"
            /\ UNCHANGED metadata_dict
    /\ paper_id' = 1
    /\ UNCHANGED <<scraping, llm, metadata_file, pdfs, calls, kwds>>
    /\ UNCHANGED <<ctrlvars, mainvars, dbvars, runvars, restvars>>

\* a loop that sends the abstract of a record without full text to the
\* keyword model and stores what it parses
EnrichNoText_UsesAbstract ==
    /\ bpc = "record"
    /\ Current.full_text = "null"
    /\ llm' = Increment(Increment(Increment(llm, "papers_processed", 1),
                        "keywords_extraction_success", 1),
                        "total_keywords_extracted", 1)
    /\ calls' = Append(calls, Call("keywords", paper_id, "parsed"))
    /\ SetFields(<<"a">>, <<>>)
    /\ UNCHANGED <<errors, scraping, metadata_file, pdfs, kwds>>
    /\ UNCHANGED <<ctrlvars, mainvars, dbvars, runvars, restvars>>

\* lines 355-374: a record without full text is passed over, with an empty
\* keyword list and an empty definitions mapping
EnrichNoText ==
    /\ bpc = "record"
    /\ Current.full_text = "null"
    /\ llm' = Increment(Increment(llm, "papers_processed", 1),
                        "papers_skipped_no_text", 1)
    /\ SetFields(<<>>, <<>>)
    /\ UNCHANGED <<errors, scraping, metadata_file, pdfs, calls, kwds>>
    /\ UNCHANGED <<ctrlvars, mainvars, dbvars, runvars, restvars>>

\* lines 355-380 with query_keywords line 52: OLLAMA_API is set and
\* KEYWORD_PROMPT_1 is not, so the prompt is None + str and TypeError leaves
\* generate_keywords_and_defs before any request is sent
EnrichKeywordsRaises ==
    /\ bpc = "record"
    /\ Current.full_text = "text"
    /\ llm' = Increment(llm, "papers_processed", 1)
    /\ bpc' = "enrich_raised"
    /\ UNCHANGED <<errors, scraping, metadata_dict, metadata_file, pdfs,
                   calls, paper_id, kwds>>
    /\ UNCHANGED <<ctrlvars, mainvars, dbvars, runvars, restvars>>

\* a loop that goes on to the definition request after a failed keyword
\* request or parse
EnrichKeywords_IgnoresFailure(answer) ==
    /\ bpc = "record"
    /\ Current.full_text = "text"
    /\ calls' = Append(calls, Call("keywords", paper_id,
                                   IF ~answer.error
                                      /\ check_keywords(answer).success
                                   THEN "parsed" ELSE "failed"))
    /\ IF answer.error \/ ~check_keywords(answer).success
       THEN
            /\ llm' = Increment(Increment(llm, "papers_processed", 1),
                                "keywords_extraction_failed", 1)
            /\ errors' = Append(errors,
                                ErrorFor("LLM_ERROR", "keywords", paper_id))
            /\ kwds' = <<>>
            /\ bpc' = "definitions"
            /\ UNCHANGED <<metadata_dict, paper_id>>
       ELSE
            /\ llm' = Increment(Increment(Increment(llm,
                                "papers_processed", 1),
                                "keywords_extraction_success", 1),
                                "total_keywords_extracted",
                                Len(check_keywords(answer).keywords))
            /\ kwds' = check_keywords(answer).keywords
            /\ bpc' = "definitions"
            /\ UNCHANGED <<errors, metadata_dict, paper_id>>
    /\ UNCHANGED <<scraping, metadata_file, pdfs>>
    /\ UNCHANGED <<ctrlvars, mainvars, dbvars, runvars, restvars>>

\* a loop that records a failed keyword request or parse without counting it
EnrichKeywords_FailureNotCounted(answer) ==
    /\ bpc = "record"
    /\ Current.full_text = "text"
    /\ calls' = Append(calls, Call("keywords", paper_id,
                                   IF ~answer.error
                                      /\ check_keywords(answer).success
                                   THEN "parsed" ELSE "failed"))
    /\ IF answer.error \/ ~check_keywords(answer).success
       THEN
            /\ llm' = Increment(llm, "papers_processed", 1)
            /\ errors' = Append(errors,
                                ErrorFor("LLM_ERROR", "keywords", paper_id))
            /\ SetFields(<<>>, <<>>)
            /\ UNCHANGED kwds
       ELSE
            /\ llm' = Increment(Increment(Increment(llm,
                                "papers_processed", 1),
                                "keywords_extraction_success", 1),
                                "total_keywords_extracted",
                                Len(check_keywords(answer).keywords))
            /\ kwds' = check_keywords(answer).keywords
            /\ bpc' = "definitions"
            /\ UNCHANGED <<errors, metadata_dict, paper_id>>
    /\ UNCHANGED <<scraping, metadata_file, pdfs>>
    /\ UNCHANGED <<ctrlvars, mainvars, dbvars, runvars, restvars>>

\* lines 355-414 for a record with full text: the keyword request, then
\* check_keywords on the response
EnrichKeywords(answer) ==
    /\ bpc = "record"
    /\ Current.full_text = "text"
    /\ calls' = Append(calls, Call("keywords", paper_id,
                                   IF ~answer.error
                                      /\ check_keywords(answer).success
                                   THEN "parsed" ELSE "failed"))
    /\ IF answer.error \/ ~check_keywords(answer).success
       THEN
            /\ llm' = Increment(Increment(llm, "papers_processed", 1),
                                "keywords_extraction_failed", 1)
            /\ errors' = Append(errors,
                                ErrorFor("LLM_ERROR", "keywords", paper_id))
            /\ SetFields(<<>>, <<>>)
            /\ UNCHANGED kwds
       ELSE
            /\ llm' = Increment(Increment(Increment(llm,
                                "papers_processed", 1),
                                "keywords_extraction_success", 1),
                                "total_keywords_extracted",
                                Len(check_keywords(answer).keywords))
            /\ kwds' = check_keywords(answer).keywords
            /\ bpc' = "definitions"
            /\ UNCHANGED <<errors, metadata_dict, paper_id>>
    /\ UNCHANGED <<scraping, metadata_file, pdfs>>
    /\ UNCHANGED <<ctrlvars, mainvars, dbvars, runvars, restvars>>

\* a loop that leaves the definitions of a record unset when the definition
\* request or parse failed
EnrichDefinitions_LeavesNull(answer) ==
    /\ bpc = "definitions"
    /\ calls' = Append(calls, DefinitionCall(paper_id,
                                   IF answer.error THEN "failed"
                                   ELSE IF check_definitions(answer).raises
                                   THEN "raised"
                                   ELSE IF check_definitions(answer).success
                                   THEN "parsed" ELSE "failed",
                                   answer.value))
    /\ kwds' = <<>>
    /\ IF ~answer.error /\ check_definitions(answer).raises
       THEN /\ bpc' = "enrich_raised"
            /\ UNCHANGED <<errors, llm, metadata_dict, paper_id>>
       ELSE IF answer.error \/ ~check_definitions(answer).success
       THEN
            /\ llm' = Increment(llm, "definitions_extraction_failed", 1)
            /\ errors' = Append(errors,
                                ErrorFor("LLM_ERROR", "definitions", paper_id))
            /\ metadata_dict' =
                   [metadata_dict EXCEPT ![paper_id].keywords = List(kwds)]
            /\ IF paper_id < Len(metadata_dict)
               THEN paper_id' = paper_id + 1 /\ bpc' = "record"
               ELSE paper_id' = 1 /\ bpc' = "write"
       ELSE LET definitions == check_definitions(answer).definitions
                num_valid_defs == clean_keywords(definitions)
                keywords_without_defs == Len(kwds) - num_valid_defs
            IN /\ llm' = Increment(Increment(Increment(llm,
                                "definitions_extraction_success", 1),
                                "total_definitions_extracted", num_valid_defs),
                                "keywords_without_definitions",
                                IF keywords_without_defs > 0
                                THEN keywords_without_defs ELSE 0)
               /\ SetFields(kwds, definitions)
               /\ UNCHANGED errors
    /\ UNCHANGED <<scraping, metadata_file, pdfs>>
    /\ UNCHANGED <<ctrlvars, mainvars, dbvars, runvars, restvars>>

\* lines 416-475: the definition request, then check_definitions on the
\* response
EnrichDefinitions(answer) ==
    /\ bpc = "definitions"
    /\ calls' = Append(calls, DefinitionCall(paper_id,
                                   IF answer.error THEN "failed"
                                   ELSE IF check_definitions(answer).raises
                                   THEN "raised"
                                   ELSE IF check_definitions(answer).success
                                   THEN "parsed" ELSE "failed",
                                   answer.value))
    /\ kwds' = <<>>
    /\ IF ~answer.error /\ check_definitions(answer).raises
       THEN /\ bpc' = "enrich_raised"
            /\ UNCHANGED <<errors, llm, metadata_dict, paper_id>>
       ELSE IF answer.error \/ ~check_definitions(answer).success
       THEN
            /\ llm' = Increment(llm, "definitions_extraction_failed", 1)
            /\ errors' = Append(errors,
                                ErrorFor("LLM_ERROR", "definitions", paper_id))
            /\ SetFields(kwds, <<>>)
       ELSE LET definitions == check_definitions(answer).definitions
                num_valid_defs == clean_keywords(definitions)
                keywords_without_defs == Len(kwds) - num_valid_defs
            IN /\ llm' = Increment(Increment(Increment(llm,
                                "definitions_extraction_success", 1),
                                "total_definitions_extracted", num_valid_defs),
                                "keywords_without_definitions",
                                IF keywords_without_defs > 0
                                THEN keywords_without_defs ELSE 0)
               /\ SetFields(kwds, definitions)
               /\ UNCHANGED errors
    /\ UNCHANGED <<scraping, metadata_file, pdfs>>
    /\ UNCHANGED <<ctrlvars, mainvars, dbvars, runvars, restvars>>

\* lines 477-495: updated_dict is written to the batch file, each record
\* under the str(i) the loop took it with (lines 355-356), and the counts
\* are returned; a failing write is recorded and swallowed
WriteMetadata(ok) ==
    /\ bpc = "write"
    /\ IF ok
       THEN /\ metadata_file' =
                   [state |-> "json",
                    keys |-> [n \in 1..Len(metadata_dict) |-> ToStr(n - 1)],
                    document |-> json_dump(metadata_dict)]
            /\ UNCHANGED errors
       ELSE /\ metadata_file' = [state |-> "garbage", keys |-> <<>>,
                                 document |-> <<>>]
            /\ RecordError("VALIDATION_ERROR", "llm_processing")
    /\ bpc' = "returned"
    /\ UNCHANGED <<scraping, llm, metadata_dict, pdfs, calls, paper_id, kwds>>
    /\ UNCHANGED <<ctrlvars, mainvars, dbvars, runvars, restvars>>

NextEnrich ==
    \/ LoadMetadata
    \/ EnrichNoText
    \/ EnrichKeywordsRaises
    \/ \E answer \in KeywordAnswers : EnrichKeywords(answer)
    \/ \E answer \in DefinitionAnswers : EnrichDefinitions(answer)
    \/ \E ok \in BOOLEAN : WriteMetadata(ok)

NextBatch == NextScrape \/ NextEnrich

\* scrape_papers, called a second time once it has returned
NextRetriever == NextScrape \/ RunAgain

----------------------------------------------------------------------------
(* Specifications *)

vars == <<dbvars, jobvars, mainvars, batchvars, runvars, restvars>>

Init == InitDB /\ InitJob /\ InitMain /\ InitBatch /\ InitRun /\ InitClean
        /\ InitSummary /\ InitHistory

\* dump_metadata_to_db called on batch files, as its module's main block does
SpecDB == Init /\ [][NextDB]_vars

\* one run of job()
SpecJob == Init /\ [][NextJob]_vars

\* job() is sequential code: whenever it can take a step it takes one
FairSpecJob == SpecJob /\ WF_vars(NextJob)

\* the process: the main block running job(), with the user's interrupts
SpecMain == Init /\ [][NextMain]_vars

\* the scrape stage record by record
SpecScrape == Init /\ [][NextScrape]_vars

\* the scrape stage and then the enrich stage, record by record
SpecBatch == Init /\ [][NextBatch]_vars

\* the metrics history over the runs of a few days
SpecHistory == Init /\ [][NextHistory]_vars

\* the save directories over the days, with clean_papers
SpecClean == Init /\ [][NextClean]_vars

\* scrape_papers called twice over the same records and save directory
SpecRetriever == Init /\ [][NextRetriever]_vars

----------------------------------------------------------------------------
(* Claims about the persistence layer, under SpecDB *)

Rows == 1..Len(articles)

\* the row was made from a record that defines keyword k (trimmed)
DefinesKeyword(row, k) ==
    \E n \in 1..Len(row.from_definitions) : row.from_definitions[n].k = k

Referenced(tbl, k) ==
    {tbl[k].paper_references[n] : n \in 1..Len(tbl[k].paper_references)}

\* C1: no two rows of articles share a title and no two share a uuid.
C1_UniqueTitleAndUuid ==
    \A i, j \in Rows :
        i # j => /\ articles[i].title # articles[j].title
                 /\ articles[i].uuid # articles[j].uuid

\* C2: every stored article comes from a record with at least one definition
\* whose keyword text and definition text are both non-empty, and at least
\* one keywords row references it.
C2_StoredOnlyWithDefinitions ==
    \A i \in Rows :
        /\ \E n \in 1..Len(articles[i].from_definitions) :
               /\ articles[i].from_definitions[n].k # <<>>
               /\ Strip(articles[i].from_definitions[n].v) # <<>>
        /\ \E k \in DOMAIN keywords :
               ToStr(articles[i].article_id) \in Referenced(keywords, k)

\* C3: in the committed table and in the table an open transaction sees,
\* every keywords row has count equal to the number of ids in
\* paper_references, no id is listed twice, and the upsert of a reference to
\* an id the row already lists changes nothing.
C3_CountMatchesReferences ==
    \A tbl \in {keywords, txKeywords} :
        \A k \in DOMAIN tbl :
            LET refs == tbl[k].paper_references
            IN /\ tbl[k].count = Len(refs)
               /\ \A m, n \in 1..Len(refs) : m # n => refs[m] # refs[n]
               /\ \A n \in 1..Len(refs) :
                      \A d \in {<<"d1">>, <<"d9">>} :
                          UpsertKeyword(tbl, k, d, refs[n].digits) = tbl

\* a keyword counted twice, seen right after a record was rolled back
C3_Witness ==
    /\ last = "error"
    /\ \E k \in DOMAIN keywords : keywords[k].count = 2

\* C4: when a call of dump_metadata_to_db ends, the loop has reached every
\* record of its batch: no record aborts the batch.
C4_EveryRecordReached == pc = "idle" => left = 0

\* C5: no two rows of articles were made from records with the same uuid:
\* persisting a document twice leaves one row.
C5_SameUuidOneRow ==
    \A i, j \in Rows :
        i # j => articles[i].from_uuid # articles[j].from_uuid

\* C6: a keywords row lists exactly the stored articles whose records define
\* that keyword and counts them; every keyword a stored article defines has
\* its row; a keyword first seen in the open transaction has count 1 and
\* lists only the new article.
C6_KeywordAggregation ==
    /\ \A k \in DOMAIN keywords :
           LET docs == {articles[i].article_id :
                            i \in {r \in Rows : DefinesKeyword(articles[r], k)}}
           IN /\ keywords[k].count = Cardinality(docs)
              /\ Referenced(keywords, k) = {ToStr(d) : d \in docs}
    /\ \A i \in Rows :
           \A n \in 1..Len(articles[i].from_definitions) :
               LET k == articles[i].from_definitions[n].k
               IN k # <<>> => k \in DOMAIN keywords
    /\ pc = "keywords" =>
           \A k \in DOMAIN txKeywords \ DOMAIN keywords :
               /\ txKeywords[k].count = 1
               /\ txKeywords[k].paper_references = <<ToStr(article_id)>>

\* three stored articles, one keyword defined by two of them
C6_Witness ==
    /\ Len(articles) = 3
    /\ \E k \in DOMAIN keywords : keywords[k].count = 2
    /\ \E k \in DOMAIN keywords : keywords[k].count = 1

\* C7: a step never changes the definition of a keywords row that exists,
\* neither in the committed table nor inside the open transaction.
C7_DefinitionKept ==
    [][ /\ \A k \in DOMAIN keywords :
               /\ k \in DOMAIN keywords'
               /\ keywords'[k].definition = keywords[k].definition
        /\ \A k \in DOMAIN txKeywords \cap DOMAIN txKeywords' :
               txKeywords'[k].definition = txKeywords[k].definition ]_vars

\* a stored article whose record defines a keyword with another text than
\* the one the keywords row holds
C7_Witness ==
    \E i \in Rows :
        \E n \in 1..Len(articles[i].from_definitions) :
            LET it == articles[i].from_definitions[n]
            IN /\ it.k \in DOMAIN keywords
               /\ ToStr(articles[i].article_id) \in Referenced(keywords, it.k)
               /\ Strip(it.v) # keywords[it.k].definition

----------------------------------------------------------------------------
(* Claims about the pipeline controller, under SpecJob and FairSpecJob *)

PipelineError(s) == Contains(errors, Error("PIPELINE_ERROR", s))

\* C8: once the persist stage has ended, dump_metadata_to_db has returned to
\* the controller and the database counters account for every record of the
\* batch, each in exactly one of inserted, duplicate, no definitions, error.
C8_CountsReturned ==
    "database" \in timing =>
        /\ ~PipelineError("database")
        /\ database.papers_attempted = batchfile.n
        /\ database.papers_inserted + database.papers_duplicate
             + database.papers_no_definitions + database.papers_error
               = database.papers_attempted

C11_DurationAlwaysRecorded ==
    /\ [](\A s \in StageNames :
            /\ ends[s] <= starts[s]
            /\ starts[s] <= 1
            /\ s \in timing <=> ends[s] = 1
            /\ s \in started <=> (starts[s] = 1 /\ ends[s] = 0)
            /\ (starts[s] = 1 /\ (s # stage \/ jpc \in {"outer_except",
                    "summary", "save", "end", "done"})) => s \in timing)
    /\ [](exc # "not_started")
    /\ [][exc # "none" => exc' = exc]_vars

\* a run whose enrich stage raised: both started stages have a duration
C11_Witness ==
    /\ jpc = "done"
    /\ exc = "read"
    /\ timing = {"scraping", "llm_processing"}
    /\ ends["llm_processing"] = 1
    /\ starts["database"] = 0

\* C12 as claimed: the process exits with status 0 exactly when all three
\* stages completed without a stage-level exception, and with a nonzero
\* status when a stage raised.
C12_ZeroExactlyOnSuccess ==
    jpc = "exited" =>
        /\ exit_status = 0 <=> (timing = StageNames /\ exc = "none")
        /\ exc # "none" => exit_status # 0

\* C12 as amended: the process exits with status 1 exactly when job() raised
\* an Exception, which is when a stage raised one and its PIPELINE_ERROR was
\* recorded; it exits with status 0 when job() returned, all stages
\* complete, and also when KeyboardInterrupt ended job(), whatever the
\* stages had done.
C12_ExitStatus ==
    jpc = "exited" =>
        /\ exit_status \in {0, 1}
        /\ exit_status = 1 <=> result = "raised"
        /\ exit_status = 0 <=> result \in {"returned", "interrupted"}
        /\ result = "raised" =>
               exc \notin {"none", "interrupt"} /\ PipelineError(stage)
        /\ result = "returned" =>
               /\ exc = "none"
               /\ timing = StageNames
               /\ \A s \in StageNames : ~PipelineError(s)
        /\ result = "interrupted" => exc = "interrupt"

\* the process has exited with status 1 after the persist stage raised
C12_Witness ==
    /\ jpc = "exited"
    /\ exit_status = 1
    /\ PipelineError("database")
    /\ timing = StageNames

----------------------------------------------------------------------------
(* Claims about the stages record by record, under SpecScrape and SpecBatch *)

Steps == 1..Len(calls)

\* the calls of one kind that ended one way
Count(op, outcome) ==
    Cardinality({n \in Steps : calls[n].op = op /\ calls[n].outcome = outcome})

Requested(op, id) ==
    \E n \in Steps : calls[n].op = op /\ calls[n].paper_id = id

\* C13: no keyword or definition request is made for a record without full
\* text; a definition request comes right after that record's keyword
\* request returned and parsed to a non-empty list; a record whose keyword
\* request or parse failed gets no definition request; and no record gets a
\* request of one kind twice.
C13_EnrichmentStateMachine ==
    /\ \A n \in Steps :
           LET c == calls[n]
           IN /\ c.op \in {"keywords", "definitions"} =>
                     metadata_dict[c.paper_id].full_text = "text"
              /\ c.op = "definitions" =>
                     /\ n > 1
                     /\ calls[n - 1] = Call("keywords", c.paper_id, "parsed")
              /\ (c.op = "keywords" /\ c.outcome = "failed") =>
                     ~Requested("definitions", c.paper_id)
              /\ c.op \in {"keywords", "definitions"} =>
                     \A m \in Steps :
                         (calls[m].op = c.op /\ calls[m].paper_id = c.paper_id)
                             => m = n
    /\ bpc = "definitions" =>
           /\ kwds # <<>>
           /\ calls[Len(calls)] = Call("keywords", paper_id, "parsed")

\* enrichment has returned: one record had no text and got no request, the
\* other got both requests
C13_Witness ==
    /\ bpc = "returned"
    /\ \E id \in 1..Len(metadata_dict) :
           /\ metadata_dict[id].full_text = "null"
           /\ ~Requested("keywords", id)
    /\ Count("definitions", "parsed") = 1

\* C14: when generate_keywords_and_defs has returned, every record of the
\* batch file it wrote has a list as keywords and a mapping as definitions;
\* and at any time every record the loop has passed has both.
C14_FieldsNeverNull ==
    /\ (bpc = "returned" /\ metadata_file.state = "json") =>
           \A id \in 1..Len(Loaded) :
               /\ Loaded[id].keywords.t = "list"
               /\ Loaded[id].definitions.t = "dict"
    /\ bpc \in {"record", "definitions", "write", "returned"} =>
           \A id \in 1..Len(metadata_dict) :
               (bpc \in {"write", "returned"} \/ id < paper_id) =>
                   /\ metadata_dict[id].keywords.t = "list"
                   /\ metadata_dict[id].definitions.t = "dict"

\* the batch is written back with a record whose definition request failed
\* (it keeps its keywords) and a record without text
C14_Witness ==
    /\ bpc = "returned"
    /\ metadata_file.state = "json"
    /\ Len(Loaded) = 2
    /\ Count("definitions", "failed") = 1
    /\ \E id \in 1..2 :
           /\ Loaded[id].keywords.v # <<>>
           /\ Loaded[id].definitions = Dict(<<>>)
    /\ \E id \in 1..2 : Loaded[id].full_text = "null"

\* the errors of one category, and the errors recorded with one stage
ErrorsOf(category) ==
    Cardinality({n \in 1..Len(errors) : errors[n].category = category})

StageErrors(s) ==
    Cardinality({n \in 1..Len(errors) : errors[n].stage = s})

C16_DefinitionFailureHandled ==
    \A n \in Steps :
        (calls[n].op = "definitions" /\ calls[n].outcome # "parsed") =>
            /\ calls[n].outcome = "failed"
            /\ bpc # "enrich_raised"
            /\ metadata_dict[calls[n].paper_id].keywords.t = "list"
            /\ metadata_dict[calls[n].paper_id].keywords.v # <<>>
            /\ metadata_dict[calls[n].paper_id].definitions = Dict(<<>>)

Range(seq) == {seq[n] : n \in 1..Len(seq)}

\* the definition requests that parsed
Parsed == {n \in Steps : calls[n].op = "definitions"
                          /\ calls[n].outcome = "parsed"}

\* the definitions the record of request n has got
Assigned(n) == metadata_dict[calls[n].paper_id].definitions.v

RECURSIVE AssignedUpTo(_)
AssignedUpTo(n) ==
    IF n = 0 THEN 0
    ELSE AssignedUpTo(n - 1) + (IF n \in Parsed THEN Len(Assigned(n)) ELSE 0)

\* the definitions of a record are the entries of the parsed mapping whose
\* value is not empty, not null and not 'None', in the mapping's order
ExactlyTheValid(n) ==
    /\ \A it \in Range(calls[n].value) :
           it \in Range(Assigned(n)) <=>
               (it.v # JNull /\ it.v # JStr(<<>>) /\ it.v # JStr(NoneStr))
    /\ Range(Assigned(n)) \subseteq Range(calls[n].value)
    /\ Cardinality(Range(Assigned(n))) = Len(Assigned(n))

\* C17 as claimed: after a successful parse the record's definitions are
\* exactly the valid entries of the parsed mapping, total_definitions_extracted
\* has grown by their number, and that number is the size of the mapping the
\* persistence layer's gate evaluates for the record.
C17_CountIsGateQuantity ==
    /\ \A n \in Parsed :
           /\ ExactlyTheValid(n)
           /\ Len(FilterDefinitions(Assigned(n), <<>>)) = Len(Assigned(n))
    /\ llm.total_definitions_extracted = AssignedUpTo(Len(calls))

\* C17 as amended: the same, except that the persistence layer filters and
\* trims the mapping again: its mapping has an entry exactly when the count
\* is at least 1 and never has more entries than the count.
C17_CountAndGateAgree ==
    /\ \A n \in Parsed :
           /\ ExactlyTheValid(n)
           /\ Len(Assigned(n)) >= 1 <=>
                  FilterDefinitions(Assigned(n), <<>>) # <<>>
           /\ Len(FilterDefinitions(Assigned(n), <<>>)) <= Len(Assigned(n))
    /\ llm.total_definitions_extracted = AssignedUpTo(Len(calls))

\* a response {'a': 'd1', 'b': 'None'} parsed: the record has got the one
\* entry a, and one definition is counted
C17_Witness ==
    \E n \in Parsed :
        /\ Len(calls[n].value) = 2
        /\ Assigned(n) = <<Item(<<"a">>, JStr(<<"d1">>))>>
        /\ llm.total_definitions_extracted = 1

\* the records that have no document URL
NoUrl == {id \in 1..Len(metadata_dict) : metadata_dict[id].pdf_url = "null"}

\* C18 as claimed: a feed entry without a download link is kept as a record
\* without document URL; no download is attempted for it, and the enrich
\* stage makes a keyword request for it.
C18_NoLinkRecordEnriched ==
    /\ bpc # "fetch" => Cardinality(NoUrl) = Count("entry", "no_pdf_link")
    /\ (bpc = "returned" /\ metadata_file.state = "json") =>
           \A id \in NoUrl :
               ~Requested("download", id) /\ Requested("keywords", id)

\* C18 as amended: a feed entry without a download link is kept as a record
\* without document URL; no download and no extraction is attempted for it,
\* its full text stays null, and the enrich stage passes it over as a record
\* without text: no keyword and no definition request, an empty keyword list
\* and an empty definitions mapping, one more in papers_skipped_no_text.
C18_NoLinkRecordSkipped ==
    /\ bpc # "fetch" =>
           /\ Cardinality(NoUrl) = Count("entry", "no_pdf_link")
           /\ Len(metadata_dict) = Count("entry", "no_pdf_link")
                                     + Count("entry", "pdf_link")
    /\ \A id \in NoUrl :
           /\ metadata_dict[id].full_text = "null"
           /\ \A op \in {"download", "extract", "keywords", "definitions"} :
                  ~Requested(op, id)
    /\ bpc \in {"write", "returned"} =>
           /\ \A id \in NoUrl :
                  /\ metadata_dict[id].keywords = List(<<>>)
                  /\ metadata_dict[id].definitions = Dict(<<>>)
           /\ llm.papers_skipped_no_text >= Cardinality(NoUrl)

\* the batch is written back: one record came from an entry without a link,
\* the other got its keyword request
C18_Witness ==
    /\ bpc = "returned"
    /\ metadata_file.state = "json"
    /\ Count("entry", "no_pdf_link") = 1
    /\ Cardinality(NoUrl) = 1
    /\ Count("keywords", "parsed") = 1

\* C19: a record without document URL stays exactly as fetched through the
\* scrape stage and into the batch file; no download and no extraction is
\* attempted for it and no error names it; the attempt counters count the
\* attempts made, all for other records; and the step a loop takes at such
\* a record changes no counter, no error, no record and no file.
C19_NoUrlUntouched ==
    /\ [](\A id \in NoUrl :
            /\ metadata_dict[id] = Record("no_pdf_link", id - 1)
            /\ ~Requested("download", id)
            /\ ~Requested("extract", id)
            /\ \A n \in 1..Len(errors) :
                   "paper_id" \in DOMAIN errors[n] => errors[n].paper_id # id
            /\ bpc = "load" => Loaded[id] = Record("no_pdf_link", id - 1))
    /\ [](/\ scraping.pdfs_attempted
               = Count("download", "ok") + Count("download", "failed")
          /\ scraping.pdfs_attempted
               = scraping.pdfs_downloaded + scraping.pdfs_failed
          /\ scraping.text_extraction_attempted
               = Count("extract", "text") + Count("extract", "empty")
                   + Count("extract", "error")
          /\ scraping.text_extraction_attempted
               = scraping.text_extraction_succeeded
                   + scraping.text_extraction_failed)
    /\ [][(bpc \in {"download", "extract"} /\ Current.pdf_url = "null") =>
              UNCHANGED <<scraping, errors, metadata_dict, metadata_file,
                          calls, pdfs>>]_vars

\* the batch file is written: one record has no URL and is as fetched, the
\* other was downloaded and its text extracted
C19_Witness ==
    /\ bpc = "load"
    /\ \E id \in NoUrl : Loaded[id] = Record("no_pdf_link", id - 1)
    /\ Count("download", "ok") = 1
    /\ Count("extract", "text") = 1

\* C20: once the extraction loop is over, a record whose file is missing or
\* whose extraction gave no text without an error has no full text, no
\* extraction error is recorded for it, and text_extraction_failed counts
\* only the extractions that ended with an error.
C20_NoTextIsASkip ==
    bpc \in {"save", "load", "scrape_raised"} =>
        /\ \A id \in 1..Len(metadata_dict) :
               ((metadata_dict[id].pdf_url = "url" /\ id \notin pdfs)
                    \/ Contains(calls, Call("extract", id, "empty"))) =>
                   /\ metadata_dict[id].full_text = "null"
                   /\ ~Contains(errors,
                                ErrorFor("SCRAPING_ERROR", "extract", id))
        /\ scraping.text_extraction_failed = Count("extract", "error")

----------------------------------------------------------------------------
(* Claims about a second call of scrape_papers, under SpecRetriever *)

\* the download attempts made after the first k steps
DownloadsSince(k) == {n \in Steps : n > k /\ calls[n].op = "download"}

\* the records that have a document URL
WithUrl == {id \in 1..Len(metadata_dict) : metadata_dict[id].pdf_url = "url"}

\* the second call's download loop is over
SecondLoopOver ==
    run = 2 /\ bpc \in {"extract", "save", "load", "scrape_raised"}

\* C21 as claimed: the second call attempts no download and counts as many
\* downloaded PDFs as the first call returned, whatever the outcomes of the
\* first call's downloads were.
C21_SecondRunIdle ==
    SecondLoopOver =>
        /\ DownloadsSince(first.calls) = {}
        /\ num_pdfs_downloaded = first.returned

\* C21 as amended: in either call a record whose file is in the save
\* directory is counted as downloaded with no attempt, no counter and no
\* error. The second call attempts a download exactly for the records with
\* a URL whose file the first call did not leave in the directory, and counts
\* the files left by the first call plus its own successes, never fewer than
\* the first call returned. When no download of the first call failed, the
\* second call attempts none and counts the same.
C21_SecondRunRetriesMissing ==
    /\ [](SecondLoopOver =>
            /\ {calls[n].paper_id : n \in DownloadsSince(first.calls)}
                   = WithUrl \ first.pdfs
            /\ Cardinality(DownloadsSince(first.calls))
                   = Cardinality(WithUrl \ first.pdfs)
            /\ num_pdfs_downloaded
                   = Cardinality(WithUrl \cap first.pdfs)
                       + Cardinality({n \in DownloadsSince(first.calls) :
                                         calls[n].outcome = "ok"})
            /\ num_pdfs_downloaded >= first.returned
            /\ (\A n \in 1..first.calls :
                    calls[n].op = "download" => calls[n].outcome = "ok") =>
                   /\ DownloadsSince(first.calls) = {}
                   /\ num_pdfs_downloaded = first.returned)
    /\ [][(bpc = "download" /\ Current.pdf_url = "url" /\ paper_id \in pdfs) =>
              /\ num_pdfs_downloaded' = num_pdfs_downloaded + 1
              /\ UNCHANGED <<calls, scraping, errors, pdfs>>]_vars

\* two records with a URL: the first call found one file in the directory
\* and downloaded the other, the second call attempted nothing and counted
\* two again
C21_Witness ==
    /\ run = 2
    /\ bpc = "load"
    /\ Count("download", "ok") = 1
    /\ Cardinality(WithUrl) = 2
    /\ DownloadsSince(first.calls) = {}
    /\ first.returned = 2
    /\ num_pdfs_downloaded = 2

\* the steps that are a delay
Delays == {n \in Steps : calls[n].op = "sleep"}

\* C22: every download attempt comes right after a delay made for the same
\* record, every delay is followed at once by the download attempt of its
\* record, a record with a URL, so that there are as many delays as attempts
\* and one lies between any two attempts; and a step of the loop at a record
\* without URL or whose file is there adds neither a delay nor an attempt.
C22_DelayBeforeNetworkCall ==
    /\ [](/\ \A n \in Steps :
                calls[n].op = "download" =>
                    /\ n > 1
                    /\ calls[n - 1] = Call("sleep", calls[n].paper_id, "delay")
          /\ \A n \in Delays :
                /\ n < Len(calls)
                /\ calls[n + 1].op = "download"
                /\ calls[n + 1].paper_id = calls[n].paper_id
                /\ calls[n].paper_id \in WithUrl
          /\ Cardinality(Delays) = scraping.pdfs_attempted
          /\ \A m, n \in Steps :
                (m < n /\ calls[m].op = "download" /\ calls[n].op = "download")
                    => \E k \in Delays : m < k /\ k < n)
    /\ [][bpc = "download" =>
              /\ (Current.pdf_url = "null" \/ paper_id \in pdfs) =>
                     calls' = calls
              /\ calls' # calls =>
                     \E outcome \in {"ok", "failed"} :
                         calls' = calls \o <<Call("sleep", paper_id, "delay"),
                                             Call("download", paper_id, outcome)>>
          ]_vars

\* the second call is over: a file was found in the directory with no delay,
\* and two downloads were attempted, each after its delay
C22_Witness ==
    /\ run = 2
    /\ bpc = "load"
    /\ first.pdfs # {}
    /\ Cardinality(Delays) = 2
    /\ Cardinality(DownloadsSince(0)) = 2

\* the download attempts for record id that ended as outcome
DownloadsOf(id, outcome) ==
    {n \in Steps : calls[n] = Call("download", id, outcome)}

\* the errors of failed downloads recorded for record id with its URL
DownloadErrorsOf(id) ==
    {n \in 1..Len(errors) :
        errors[n] = DownloadError(id, metadata_dict[id].pdf_url)}

\* C23: a failed download adds one to pdfs_failed and appends one error with
\* the record and its URL, and the loop goes to the next record, or to the
\* extraction after the last; so pdfs_failed, the failed attempts and the
\* download errors are equal in number, record by record, and once the loop
\* is over every record with a URL has its file or a failed attempt.
C23_DownloadFailureIsolated ==
    /\ [](/\ scraping.pdfs_failed = Count("download", "failed")
          /\ \A id \in 1..Len(metadata_dict) :
                Cardinality(DownloadErrorsOf(id))
                    = Cardinality(DownloadsOf(id, "failed"))
          /\ Cardinality({n \in 1..Len(errors) :
                             "op" \in DOMAIN errors[n]
                                 /\ errors[n].op = "download"})
                = scraping.pdfs_failed
          /\ bpc \notin {"fetch", "download"} =>
                \A id \in WithUrl :
                    id \in pdfs \/ DownloadsOf(id, "failed") # {})
    /\ [][(bpc = "download" /\ calls' # calls
              /\ calls'[Len(calls')].outcome = "failed") =>
              /\ scraping'.pdfs_failed = scraping.pdfs_failed + 1
              /\ errors' = Append(errors,
                                  DownloadError(paper_id, Current.pdf_url))
              /\ IF paper_id < Len(metadata_dict)
                 THEN bpc' = "download" /\ paper_id' = paper_id + 1
                 ELSE bpc' = "extract"]_vars

\* the loop is over: the download of the first record failed and the second
\* record was downloaded after it
C23_Witness ==
    /\ bpc = "extract"
    /\ DownloadsOf(1, "failed") # {}
    /\ DownloadsOf(2, "ok") # {}
    /\ scraping.pdfs_failed = 1
    /\ DownloadErrorsOf(1) # {}

----------------------------------------------------------------------------
(* Claims about get_arxiv_metadata, under SpecScrape *)

\* the entries of the response that parse, in feed order
Parseable == SelectSeq(api.response.entries, LAMBDA e : e # "malformed")

\* the entries of the response that do not
Malformed == {n \in 1..Len(api.response.entries) :
                 api.response.entries[n] = "malformed"}

C25_FailureOneError ==
    (bpc # "fetch" /\ api.response.kind # "feed") =>
        /\ api.records = <<>>
        /\ Len(api.errors) = 1
        /\ api.errors[1].type
               = IF api.response.kind = "bozo" THEN "ParseError"
                 ELSE api.response.kind

----------------------------------------------------------------------------
(* Claims about clean_papers, under SpecClean *)

\* C26: when clean_papers has run today without an error of rmtree, no save
\* directory of a day more than seven days back is left.
C26_NoExpiredDirectoryLeft ==
    cleaned \in {"removed", "absent"} =>
        \A d \in dirs : today - d <= RetentionDays

----------------------------------------------------------------------------
(* Claims about get_summary, under SpecJob *)

\* the denominators of the eight percentages of the report, in its order
Denominators(m) ==
    <<m.scraping.papers_requested, m.scraping.pdfs_attempted,
      m.scraping.text_extraction_attempted, m.llm.papers_processed,
      m.llm.papers_processed, m.llm.total_keywords_extracted,
      m.database.papers_attempted, m.database.papers_attempted>>

\* C27: in every state of the metrics, the first one included, get_summary
\* does not raise whatever the total time is: a percentage is N/A exactly
\* when its denominator is zero and a number otherwise, and the average per
\* paper has a divisor of at least 1; and the summary a run printed was
\* computed of the metrics shown, without raising.
C27_SummaryNeverRaises ==
    /\ \A total_time \in TotalTimes :
           LET s == get_summary(Snapshot, total_time)
           IN /\ ~s.raises
              /\ \A n \in 1..Len(s.percentages) :
                     /\ s.percentages[n].text \in {"N/A", "number"}
                     /\ s.percentages[n].text = "N/A"
                            <=> Denominators(Snapshot)[n] = 0
              /\ "llm_processing" \in timing =>
                     /\ s.avg_time.text = "number"
                     /\ s.avg_time.denominator >= 1
    /\ summaries >= 1 =>
           /\ ~rendered.raises
           /\ \E total_time \in TotalTimes :
                  rendered = get_summary(summary, total_time)

\* a printed summary with a percentage of a count that is not zero, one of a
\* count that is, and the average of a stage that processed no paper
C27_Witness ==
    /\ summaries >= 1
    /\ rendered.percentages[1].text = "number"
    /\ rendered.percentages[2].text = "N/A"
    /\ rendered.avg_time.text = "number"
    /\ summary.llm.papers_processed = 0
    /\ rendered.avg_time.denominator = 1

----------------------------------------------------------------------------
(* Claims about the batch file, under SpecBatch *)

\* C28: the records read from the batch file that scrape_papers has written,
\* or that generate_keywords_and_defs has written back, are equal to the
\* records that were written; the keys of the file are the decimal strings
\* of 0, 1, ... in order.
C28_BatchRoundTrip ==
    (bpc \in {"load", "returned"} /\ metadata_file.state = "json") =>
        /\ Loaded = metadata_dict
        /\ metadata_file.keys = [n \in 1..Len(metadata_dict) |-> ToStr(n - 1)]

----------------------------------------------------------------------------
(* Claims about the metrics history, under SpecHistory *)

\* the lines of file name that belong to run r
LinesOf(r, name) ==
    {n \in 1..Len(history[name]) : history[name][n].run = r}

\* the log file of the calendar day of t: year, month, day
DayFile(t) == HistoryFile(t.month, t.day)

\* C29: every call of save_metrics_history that wrote has exactly one line,
\* and that line is in the log file of the calendar day of the call, so that
\* two calls on the same day have their lines in the same file.
C29_OneLinePerRunInDayFile ==
    \A r \in 1..Len(saved) :
        saved[r].written =>
            /\ DayFile(saved[r].at) \in DOMAIN history
            /\ \A name \in DOMAIN history :
                   Cardinality(LinesOf(r, name))
                       = IF name = DayFile(saved[r].at) THEN 1 ELSE 0

----------------------------------------------------------------------------
(* Claims about the fields a failed step leaves, under SpecBatch *)

\* the step taken appends a call of op that did not end as parsed
FailedStep(op) ==
    /\ Len(calls') = Len(calls) + 1
    /\ calls'[Len(calls')].op = op
    /\ calls'[Len(calls')].outcome # "parsed"

\* C30: the step in which the keyword request or the keyword parse of a
\* record fails gives the record an empty keyword list and an empty
\* definitions mapping; the step in which its definition request or
\* definition parse fails gives it the keyword list parsed before and an
\* empty definitions mapping.
C30_FailedStepFields ==
    /\ [][(bpc = "record" /\ FailedStep("keywords")) =>
              /\ metadata_dict'[paper_id].keywords = List(<<>>)
              /\ metadata_dict'[paper_id].definitions = Dict(<<>>)]_vars
    /\ [][(bpc = "definitions" /\ FailedStep("definitions")) =>
              /\ kwds # <<>>
              /\ metadata_dict'[paper_id].keywords = List(kwds)
              /\ metadata_dict'[paper_id].definitions = Dict(<<>>)]_vars

----------------------------------------------------------------------------
(* C31 *)

\* transactions begun and not yet closed
OpenTransactions == begun - (ended.commit + ended.rollback)

\* every row of table rows is a row of table later, at the same place
RowsKept(rows, later) ==
    /\ Len(rows) <= Len(later)
    /\ \A i \in 1..Len(rows) : later[i] = rows[i]

\* C31: in dump_metadata_to_db each record's BEGIN finds no transaction
\* open and is the only BEGIN of that record; the transaction is closed by
\* exactly one commit or rollback before the loop takes the next record or
\* the call returns, whichever way the record ends; a rollback changes no
\* committed row, and rows committed for earlier records stay as they are.
C31_OneTransactionPerRecord ==
    [][ /\ OpenTransactions \in {0, 1}
        /\ OpenTransactions' \in {0, 1}
        /\ (OpenTransactions' = 1) <=> inTx'
        /\ pc' \in {"loop", "idle"} => OpenTransactions' = 0
        /\ begun' # begun =>
               /\ OpenTransactions = 0
               /\ ~inTx
               /\ begun' = begun + 1
               /\ seen' = seen + 1
        /\ begun' = seen'
        /\ ended' # ended =>
               /\ ended'.commit + ended'.rollback
                      = ended.commit + ended.rollback + 1
               /\ OpenTransactions' = 0
        /\ ended'.rollback # ended.rollback =>
               articles' = articles /\ keywords' = keywords
        /\ RowsKept(articles, articles')
        /\ (articles' # articles \/ keywords' # keywords) =>
               ended'.commit = ended.commit + 1
      ]_vars

\* a call has returned after a record that was committed, a record whose
\* insert was rolled back and a record skipped as a duplicate
C31_Witness ==
    /\ pc = "idle"
    /\ last = "duplicate"
    /\ ended = [commit |-> 1, rollback |-> 2]
    /\ undone # {}
    /\ begun = 3
    /\ ~inTx

----------------------------------------------------------------------------
(* C32 *)

\* how many controller errors name stage s
ControllerErrors(s) ==
    Cardinality({n \in 1..Len(errors) :
                    errors[n] = Error("PIPELINE_ERROR", s)})

\* the stages after stage s
LaterStages(s) ==
    {Stages[m] : m \in {m \in 1..Len(Stages) :
                           \E n \in 1..Len(Stages) : Stages[n] = s /\ n < m}}

\* stage s was started only after the stage before it had returned without
\* raising
StartedInOrder ==
    \A n \in 2..Len(Stages) :
        starts[Stages[n]] > 0 =>
            /\ starts[Stages[n - 1]] = 1
            /\ ends[Stages[n - 1]] = 1
            /\ ControllerErrors(Stages[n - 1]) = 0
            /\ exc # "none" => stage \in {Stages[n]} \cup LaterStages(Stages[n])

\* no stage after the one that raised was started
NoLaterStage ==
    (exc # "none" /\ stage \in StageNames) =>
        \A s \in LaterStages(stage) : starts[s] = 0 /\ s \notin timing

\* C32 as stated: whenever the try block of a stage is left by an exception,
\* the stages run in order, no later stage is started and exactly one
\* controller error names the stage.
C32_OneErrorWheneverAStageRaises ==
    /\ StartedInOrder
    /\ NoLaterStage
    /\ (jpc = "finally" /\ exc # "none") => ControllerErrors(stage) = 1

\* C32 (amended): the enrich stage starts only after the scrape stage
\* returned without raising and the persist stage only after the enrich
\* stage did; once a stage raises, no later stage is started; a stage that
\* raised an Exception has exactly one controller error naming it, a stage
\* left by KeyboardInterrupt has at most one, and no other stage has any.
C32_StagesInOrder ==
    /\ StartedInOrder
    /\ NoLaterStage
    /\ (jpc \in {"finally", "outer_except", "save", "end", "done", "exited"}
          /\ exc \notin {"none", "interrupt"}) =>
           ControllerErrors(stage) = 1
    /\ \A s \in StageNames :
           /\ ControllerErrors(s) <= 1
           /\ ControllerErrors(s) = 1 => (s = stage /\ exc # "none")

\* the enrich stage raised after the scrape stage had returned: one
\* controller error, for the enrich stage, and the persist stage not started
C32_Witness ==
    /\ jpc = "done"
    /\ exc = "read"
    /\ stage = "llm_processing"
    /\ ends = [s \in StageNames |-> IF s = "database" THEN 0 ELSE 1]
    /\ starts["database"] = 0
    /\ ControllerErrors("llm_processing") = 1
    /\ ControllerErrors("scraping") = 0

----------------------------------------------------------------------------
(* C33 *)

\* the categories the specification lists
Taxonomy ==
    {"FETCH_ERROR", "RETRIEVAL_ERROR", "EXTRACTION_ERROR", "LLM_ERROR",
     "VALIDATION_ERROR", "PERSISTENCE_ERROR"}

\* C33: every error recorded during a run carries one of the categories
\* FETCH_ERROR, RETRIEVAL_ERROR, EXTRACTION_ERROR, LLM_ERROR,
\* VALIDATION_ERROR, PERSISTENCE_ERROR.
C33_CategoriesOfTheTaxonomy ==
    \A n \in 1..Len(errors) : errors[n].category \in Taxonomy

----------------------------------------------------------------------------
(* C34 *)

\* the fields of a record other than full_text, keywords and definitions
Frame(r) ==
    [f \in DOMAIN r \ {"full_text", "keywords", "definitions"} |-> r[f]]

\* the records of a sequence have the frames of the records fetched
AsFetched(records) ==
    /\ Len(records) = Len(api.records)
    /\ \A n \in 1..Len(records) :
           Frame(records[n]) = Frame(api.records[n].record)

\* C34: from the fetch on, the records the loops of a run hold and the
\* records of the batch file are the records fetched, each with the uuid and
\* every other field it was fetched with, full_text, keywords and
\* definitions apart; the uuids of a batch are distinct; and the batch file
\* has the same keys after the enrichment stage wrote it as before.
C34_UuidAndFrameKept ==
    /\ [](bpc # "fetch" => AsFetched(metadata_dict))
    /\ [](metadata_file.state = "json" =>
            /\ AsFetched(Loaded)
            /\ Len(metadata_file.keys) = Len(Loaded)
            /\ \A n, m \in 1..Len(Loaded) :
                   Loaded[n].uuid = Loaded[m].uuid => n = m)
    /\ [][(bpc = "write" /\ metadata_file'.state = "json") =>
              /\ metadata_file'.keys = metadata_file.keys
              /\ Len(json_load(metadata_file'.document)) = Len(Loaded)
              /\ \A n \in 1..Len(Loaded) :
                     Frame(json_load(metadata_file'.document)[n])
                         = Frame(Loaded[n])]_vars

\* the enrichment stage has written the batch back: two records, one with
\* text, keywords and a definition, one without a document URL
C34_Witness ==
    /\ bpc = "returned"
    /\ metadata_file.state = "json"
    /\ Len(Loaded) = 2
    /\ \E n \in 1..2 :
           /\ Loaded[n].full_text = "text"
           /\ Loaded[n].keywords.t = "list" /\ Loaded[n].keywords.v # <<>>
           /\ Loaded[n].definitions.t = "dict"
           /\ Loaded[n].definitions.v # <<>>
    /\ \E n \in 1..2 : Loaded[n].pdf_url = "null"
    /\ Loaded[1].uuid # Loaded[2].uuid

----------------------------------------------------------------------------
(* C35 *)

\* the keys '0'..'N-1' for the N records fetched
IndexKeys == [n \in 1..Len(api.records) |-> ToStr(n - 1)]

\* C35: the keys of the batch file are '0'..'N-1' for the N records fetched;
\* the enrichment loop takes the records in index order, each once, finds
\* every key, and at the end of the stage papers_processed is N.
C35_EveryRecordVisitedOnce ==
    /\ metadata_file.state = "json" => metadata_file.keys = IndexKeys
    /\ bpc = "record" => llm.papers_processed = paper_id - 1
    /\ bpc = "definitions" => llm.papers_processed = paper_id
    /\ bpc \in {"returned", "enrich_raised"} =>
           llm.papers_processed = Len(api.records)

----------------------------------------------------------------------------
(* C36 *)

\* C36: in the committed tables every id a keywords row lists in
\* paper_references is the article_id of exactly one articles row, and that
\* row was made from a record defining the keyword; this also after a
\* rollback freed an article_id that a later record then got.
C36_ReferencesResolve ==
    /\ \A i, j \in Rows :
           articles[i].article_id = articles[j].article_id => i = j
    /\ \A k \in DOMAIN keywords :
           \A ref \in Referenced(keywords, k) :
               \E i \in Rows :
                   /\ ToStr(articles[i].article_id) = ref
                   /\ DefinesKeyword(articles[i], k)

\* a committed article has an id that an earlier record's rollback had given
\* back, and a keywords row lists that id
C36_Witness ==
    \E i \in Rows :
        /\ articles[i].article_id \in undone
        /\ \E k \in DOMAIN keywords :
               ToStr(articles[i].article_id) \in Referenced(keywords, k)

----------------------------------------------------------------------------
(* C37 *)

\* a record as get_arxiv_metadata makes it (its title is trimmed, scrapers.py
\* line 118) whose title a committed row of articles has
Refetched(p) ==
    /\ p.shape = "dict"
    /\ p.title = Strip(p.title)
    /\ \E i \in Rows : articles[i].title = p.title

\* C37: a record whose title is stored already, whatever its uuid and its
\* definitions, is found by the duplicate check, never gets as far as the
\* insert, and no step taken for it changes a committed row of articles or
\* keywords: the committed tables change only by the commit of a record
\* whose title was not stored.
C37_RefetchedTitleChangesNothing ==
    /\ []((pc = "check" /\ Refetched(paper)) => IsDuplicate(txArticles, paper))
    /\ [](pc = "keywords" => ~Refetched(paper))
    /\ [][(articles' # articles \/ keywords' # keywords) =>
              /\ pc = "keywords"
              /\ ~Refetched(paper)
              /\ RowsKept(articles, articles')]_vars
    /\ [][(pc = "check" /\ Refetched(paper)) =>
              articles' = articles /\ keywords' = keywords]_vars

\* a later call is at the duplicate check with a record whose title a row
\* stored by an earlier call has; the record's uuid is new and it defines a
\* keyword the table does not have
C37_Witness ==
    /\ pc = "check"
    /\ Refetched(paper)
    /\ \E i \in 1..prior : articles[i].title = paper.title
    /\ \A i \in Rows : /\ articles[i].uuid # Strip(paper.uuid)
                       /\ articles[i].uuid # paper.uuid
    /\ \E n \in 1..Len(pending) : pending[n].k \notin DOMAIN keywords

----------------------------------------------------------------------------
(* C38 *)

\* the records whose file was in the save directory when the download loop
\* came to them: the file is there and no download was made for the record
Existed ==
    {id \in 1..Len(metadata_dict) : id \in pdfs /\ ~Requested("download", id)}

\* C38: whatever the downloads and the extractions gave, pdfs_attempted =
\* pdfs_downloaded + pdfs_failed and text_extraction_attempted =
\* text_extraction_succeeded + text_extraction_failed, each counter being
\* the number of the outcomes of its kind; and once the download loop has
\* ended, and so when scrape_papers returns, its downloaded count is
\* pdfs_downloaded plus the number of records whose file already existed.
C38_ScrapeCountersBalance ==
    /\ scraping.pdfs_attempted
           = scraping.pdfs_downloaded + scraping.pdfs_failed
    /\ scraping.pdfs_downloaded = Count("download", "ok")
    /\ scraping.pdfs_failed = Count("download", "failed")
    /\ scraping.text_extraction_attempted
           = scraping.text_extraction_succeeded
               + scraping.text_extraction_failed
    /\ scraping.text_extraction_succeeded = Count("extract", "text")
    /\ scraping.text_extraction_failed
           = Count("extract", "empty") + Count("extract", "error")
    /\ bpc \in {"extract", "save", "load", "scrape_raised"} =>
           num_pdfs_downloaded
               = scraping.pdfs_downloaded + Cardinality(Existed)

\* scrape_papers has returned 1 for two records: the file of one was there
\* already and gave no text, the download of the other failed
C38_Witness ==
    /\ bpc = "load"
    /\ Cardinality(Existed) = 1
    /\ scraping.pdfs_attempted = 1
    /\ scraping.pdfs_failed = 1
    /\ scraping.text_extraction_attempted = 1
    /\ scraping.text_extraction_failed = 1
    /\ num_pdfs_downloaded = 1

====
